---- MODULE Spec2Model ----
(***************************************************************************)
(* Model of the message-processing pipeline of the Spur chat backend:      *)
(* ChatService (PostgreSQL store + Redis history cache), the strategy      *)
(* registry, StandardLLMStrategy.generateResponse and                      *)
(* ChatOrchestrator.processMessage.                                        *)
(*                                                                         *)
(* Text is a sequence of tokens.  Every "[" , "{" and newline character is *)
(* a token of its own, and so is the prefix "data: ", so that the string   *)
(* tests of the code (startsWith, includes, replace of the first           *)
(* occurrence) are computed on the tokens exactly as on the characters.    *)
(***************************************************************************)
EXTENDS Integers, Sequences, FiniteSets, TLC

\* ------------------------------------------------------------------ bounds
MaxChunks == 2          \* chunks the model stream delivers in one call
MaxOtherCalls == 2      \* ChatService calls made by a concurrent request
MaxCustomFrames == 2    \* frames a registered non-standard strategy yields
MaxSeqCalls == 5        \* ChatService calls of a client that never overlaps
MaxChunkIds == 2        \* chunk ids the vector index holds
MaxBroadMatches == 2    \* matches the unfiltered query returns (at most topK)
MaxNewConvs == 2        \* conversations created besides the one of the request
MaxDeleteCalls == 4     \* ChatService calls of the client that deletes
MaxListCalls == 4       \* ChatService calls of the clients of the conversation list

None == [none |-> TRUE]

\* ------------------------------------------------------- string operations
NL == "\n"

\* String.prototype.startsWith
StartsWith(s, p) ==
    /\ Len(s) >= Len(p)
    /\ SubSeq(s, 1, Len(p)) = p

\* String.prototype.indexOf, 1-based; 0 when p does not occur in s
IndexOf(s, p) ==
    LET hits == {i \in 1..(Len(s) - Len(p) + 1) : SubSeq(s, i, i + Len(p) - 1) = p}
    IN  IF hits = {} THEN 0 ELSE CHOOSE i \in hits : \A j \in hits : i <= j

\* String.prototype.includes
Includes(s, p) == IndexOf(s, p) # 0

\* String.prototype.replace(p, r) with a string pattern: first occurrence only
ReplaceFirst(s, p, r) ==
    LET i == IndexOf(s, p)
    IN  IF i = 0 THEN s
        ELSE SubSeq(s, 1, i - 1) \o r \o SubSeq(s, i + Len(p), Len(s))

RECURSIVE Concat(_)
Concat(ss) == IF ss = <<>> THEN <<>> ELSE Head(ss) \o Concat(Tail(ss))

\* ------------------------------------------------------------------ frames
DataPrefix == <<"data: ">>
FrameEnd == <<NL, NL>>

CallToFrame == <<"[", "CALL_TO]">> \o FrameEnd
DoneFrame == <<"[", "DONE]">> \o FrameEnd
ErrorFrame == <<"[", "ERROR]">> \o FrameEnd

\* `data: ${content}\n\n`
DataFrame(content) == DataPrefix \o content \o FrameEnd

StrategyNameFrame == DataFrame(<<"STANDARD_STRATEGY">>)

\* JSON.stringify({ message: m })
JsonMessage(m) == <<"{", "\"message\":", m, "}">>

\* the four fixed user-facing messages of the strategy and the orchestrator's
MsgGeneric == "Failed to generate response. Please try again."
MsgRateLimit == "Rate limit exceeded. Please wait and try again."
MsgInvalidKey == "Invalid API key. Please check your configuration."
MsgTimedOut == "Request timed out. Please try again."
MsgOrchestrator == "An error occurred while generating the response."

\* ------------------------------------------------------------ conversations
Repeat(c, n) == [i \in 1..n |-> c]

\* a UUID-shaped text, one token per character: 8-4-4-4-12 with the given
\* filling digit, version digit and variant digit
UuidText(fill, version, variant) ==
    Repeat(fill, 8) \o <<"-">> \o Repeat(fill, 4) \o <<"-", version>> \o Repeat(fill, 3)
        \o <<"-", variant>> \o Repeat(fill, 3) \o <<"-">> \o Repeat(fill, 12)

\* the id of the conversation of the request
ConvId == UuidText("a", "4", "8")

\* createConversation(metadata?, title = "New Conversation")
DefaultTitle == "New Conversation"

\* the POST /chat/message handler before a request has arrived, and once it
\* has constructed the orchestrator for the conversation of the request
NoValue == [type |-> "undefined", text |-> <<>>]
RouteListening ==
    [stage |-> "listening",
     request |-> [message |-> NoValue, sessionId |-> NoValue],
     conversationId |-> <<>>,
     response |-> [status |-> "none", error |-> "none"]]

\* no list key in Redis
NoList == [present |-> FALSE, value |-> [json |-> <<>>]]

\* ------------------------------------------------------------------- state
VARIABLES
    db,           \* the messages table of the conversation, timestamp ascending
    nextId,       \* next message id / creation timestamp
    cache,        \* Redis list chat:<conversationId>:history (<<>> = no key)
    redisUp,      \* isRedisAvailable()
    sv,           \* per request: the ChatService call in progress
    otherLeft,    \* calls the concurrent request may still start
    pc,           \* position of processMessage
    message,      \* processMessage argument
    chatType,     \* processMessage argument
    userSaved,    \* the Message returned by the step-1 addMessage
    memory,       \* const memory (loaded flag and value)
    fullResponse, \* let fullResponse
    frames,       \* frames processMessage has yielded to its caller
    steps,        \* steps processMessage has started, in order
    registry,     \* ChatStrategyFactory.map
    lastRegistered, \* per kind, the class of the latest registration
    st,           \* the strategy instance and the position of its generator
    chunk,        \* frame yielded by the strategy, not yet consumed
    stratFrames,  \* frames the strategy has yielded
    increments,   \* text increments received from the model stream
    titleTask,    \* position of the detached generateTitle task
    title,        \* Conversation.title of the conversation of the request
    convs,        \* ids of the rows of the conversation table, oldest first
    listCache,    \* Redis key chat:conversations:list:<limit>:<offset>
    route,        \* the POST /chat/message handler: request, position, response
    peer          \* a second processMessage call on the same conversation

vars == <<db, nextId, cache, redisUp, sv, otherLeft, pc, message, chatType,
          userSaved, memory, fullResponse, frames, steps, registry,
          lastRegistered, st, chunk, stratFrames, increments, titleTask, title,
          convs, listCache, route, peer>>

svcVars == <<db, nextId, cache, sv>>
orchVars == <<pc, message, chatType, userSaved, memory, fullResponse, frames, steps>>
stratVars == <<st, chunk, stratFrames, increments>>
titleVars == <<titleTask, title>>
convVars == <<convs, listCache, route, peer>>

\* a row of the conversation table has this id
ConversationExists(id) == \E i \in DOMAIN convs : convs[i] = id

Procs == {"orch", "other"}

\* ------------------------------------------------------------- ChatService
\* JSON.stringify(message): the Date becomes its ISO string
Stringify(m) ==
    [json |-> [id |-> m.id, sender |-> m.sender, content |-> m.content,
               timestamp |-> [iso |-> m.timestamp.date]]]

\* JSON.parse(item): a plain object, the timestamp stays a string
Parse(item) == item.json

MapSeq(s, F(_)) == [i \in 1..Len(s) |-> F(s[i])]

\* the result of the client's previous getHistory, and the number of
\* messages ever saved when that call was entered
NoRead == [valid |-> FALSE, result |-> <<>>, stamp |-> 0]

NoCall ==
    [op |-> "none", pc |-> "none", status |-> "returned", sender |-> "none",
     content |-> <<>>, saved |-> None, result |-> <<>>, stamp |-> 0,
     prev |-> NoRead, conv |-> <<>>, title |-> "none", found |-> FALSE,
     deleted |-> FALSE, settled |-> FALSE, seen |-> <<>>]

\* entry of addMessage(conversationId, sender, content)
BeginAddMessage(sender, content) ==
    [NoCall EXCEPT !.op = "addMessage", !.pc = "save", !.status = "running",
                   !.sender = sender, !.content = content]

\* entry of getHistory(conversationId)
BeginGetHistory ==
    [NoCall EXCEPT !.op = "getHistory", !.pc = "lrange", !.status = "running"]

Returned(call) == [call EXCEPT !.pc = "none", !.status = "returned"]
Raised(call) == [call EXCEPT !.pc = "none", !.status = "raised"]

\* addMessage: messageRepository.save (rejected by the foreign key of
\* Message.conversationId when the conversation is gone), then the
\* isRedisAvailable() test
AddMessageSave(p) ==
    /\ sv[p].op = "addMessage" /\ sv[p].pc = "save"
    /\ \/ /\ sv' = [sv EXCEPT ![p] = Raised(@)]
          /\ UNCHANGED <<db, nextId>>
       \/ LET \* the Message entity as saved (timestamp is a Date)
               m == [id |-> nextId, sender |-> sv[p].sender,
                     content |-> sv[p].content, timestamp |-> [date |-> nextId]]
          IN  /\ ConversationExists(route.conversationId)
              /\ db' = Append(db, m)
              /\ nextId' = nextId + 1
              /\ sv' = [sv EXCEPT ![p] =
                          IF redisUp THEN [@ EXCEPT !.saved = m, !.pc = "exists"]
                          ELSE Returned([@ EXCEPT !.saved = m])]
    /\ UNCHANGED <<cache, redisUp, otherLeft, registry, lastRegistered, convVars>>
    /\ UNCHANGED <<orchVars, stratVars, titleVars>>

\* AddMessageExists letting the Redis error leave addMessage
AddMessageExistsRaises(p) ==
    /\ sv[p].op = "addMessage" /\ sv[p].pc = "exists"
    /\ \E ok \in BOOLEAN :
          sv' = [sv EXCEPT ![p] =
                    IF ~ok THEN Raised(@)
                    ELSE IF cache # <<>> THEN [@ EXCEPT !.pc = "rpush"]
                    ELSE Returned(@)]
    /\ UNCHANGED <<db, nextId, cache, redisUp, otherLeft, registry, lastRegistered, convVars>>
    /\ UNCHANGED <<orchVars, stratVars, titleVars>>

\* addMessage: redisClient.exists(cacheKey); a Redis error is caught and logged
AddMessageExists(p) ==
    /\ sv[p].op = "addMessage" /\ sv[p].pc = "exists"
    /\ \E ok \in BOOLEAN :
          sv' = [sv EXCEPT ![p] =
                    IF ok /\ cache # <<>> THEN [@ EXCEPT !.pc = "rpush"]
                    ELSE Returned(@)]
    /\ UNCHANGED <<db, nextId, cache, redisUp, otherLeft, registry, lastRegistered, convVars>>
    /\ UNCHANGED <<orchVars, stratVars, titleVars>>

\* addMessage: redisClient.rPush(cacheKey, JSON.stringify(savedMessage))
AddMessageRPush(p) ==
    /\ sv[p].op = "addMessage" /\ sv[p].pc = "rpush"
    /\ \/ /\ cache' = Append(cache, Stringify(sv[p].saved))
          /\ sv' = [sv EXCEPT ![p].pc = "expire"]
       \/ /\ sv' = [sv EXCEPT ![p] = Returned(@)]
          /\ UNCHANGED cache
    /\ UNCHANGED <<db, nextId, redisUp, otherLeft, registry, lastRegistered, convVars>>
    /\ UNCHANGED <<orchVars, stratVars, titleVars>>

\* addMessage: redisClient.expire(cacheKey, 3600); success and a caught
\* failure both return savedMessage
AddMessageExpire(p) ==
    /\ sv[p].op = "addMessage" /\ sv[p].pc = "expire"
    /\ sv' = [sv EXCEPT ![p] = Returned(@)]
    /\ UNCHANGED <<db, nextId, cache, redisUp, otherLeft, registry, lastRegistered, convVars>>
    /\ UNCHANGED <<orchVars, stratVars, titleVars>>

\* getHistory: isRedisAvailable() and redisClient.lRange(cacheKey, 0, -1)
GetHistoryLRange(p) ==
    /\ sv[p].op = "getHistory" /\ sv[p].pc = "lrange"
    /\ \E ok \in BOOLEAN :
          sv' = [sv EXCEPT ![p] =
                    IF redisUp /\ ok /\ Len(cache) > 0
                    THEN Returned([@ EXCEPT !.result = MapSeq(cache, Parse)])
                    ELSE [@ EXCEPT !.pc = "find"]]
    /\ UNCHANGED <<db, nextId, cache, redisUp, otherLeft, registry, lastRegistered, convVars>>
    /\ UNCHANGED <<orchVars, stratVars, titleVars>>

\* getHistory: messageRepository.find ordered by timestamp ASC
GetHistoryFind(p) ==
    /\ sv[p].op = "getHistory" /\ sv[p].pc = "find"
    /\ \/ sv' = [sv EXCEPT ![p] = Raised(@)]
       \/ sv' = [sv EXCEPT ![p] =
                    IF redisUp /\ Len(db) > 0
                    THEN [@ EXCEPT !.result = db, !.pc = "multi"]
                    ELSE Returned([@ EXCEPT !.result = db])]
    /\ UNCHANGED <<db, nextId, cache, redisUp, otherLeft, registry, lastRegistered, convVars>>
    /\ UNCHANGED <<orchVars, stratVars, titleVars>>

\* getHistory: MULTI del / rPush each / expire EXEC; a failure is caught
GetHistoryMulti(p) ==
    /\ sv[p].op = "getHistory" /\ sv[p].pc = "multi"
    /\ \/ cache' = MapSeq(sv[p].result, Stringify)
       \/ UNCHANGED cache
    /\ sv' = [sv EXCEPT ![p] = Returned(@)]
    /\ UNCHANGED <<db, nextId, redisUp, otherLeft, registry, lastRegistered, convVars>>
    /\ UNCHANGED <<orchVars, stratVars, titleVars>>

\* the one-hour TTL of the history key runs out
CacheExpire ==
    /\ cache # <<>>
    /\ cache' = <<>>
    /\ UNCHANGED <<db, nextId, redisUp, sv, otherLeft, registry, lastRegistered, convVars>>
    /\ UNCHANGED <<orchVars, stratVars, titleVars>>

\* a concurrent request on the same conversation calls the service
OtherText == <<"b">>

OtherCall ==
    /\ otherLeft > 0
    /\ sv["other"].status # "running"
    /\ otherLeft' = otherLeft - 1
    /\ \/ \E sender \in {"user", "ai"} :
             sv' = [sv EXCEPT !["other"] = BeginAddMessage(sender, OtherText)]
       \/ LET call == sv["other"]
              \* what the client keeps of the call it has just finished
              lastRead ==
                  IF call.op = "getHistory" /\ call.status = "returned"
                  THEN [valid |-> TRUE, result |-> call.result, stamp |-> call.stamp]
                  ELSE NoRead
          IN  sv' = [sv EXCEPT !["other"] =
                       [BeginGetHistory EXCEPT !.stamp = nextId, !.prev = lastRead]]
    /\ UNCHANGED <<db, nextId, cache, redisUp, registry, lastRegistered, convVars>>
    /\ UNCHANGED <<orchVars, stratVars, titleVars>>

\* ------------------------------------------- ChatService: conversations
\* the conversation list of the database: createdAt DESC, title || default
ConversationsList ==
    [i \in 1..Len(convs) |->
        LET k == Len(convs) + 1 - i
        IN  [id |-> convs[k], title |-> IF convs[k] = ConvId THEN title ELSE DefaultTitle,
             createdAt |-> [date |-> k]]]

\* the id the database gives to the next conversation
NextConvId ==
    LET created == Len(convs) - Len(SelectSeq(convs, LAMBDA c : c = ConvId))
    IN  UuidText(<<"b", "c", "d", "e">>[created + 1], "4", "8")

BeginCreateConversation ==
    [NoCall EXCEPT !.op = "createConversation", !.pc = "saveConv", !.status = "running"]

ConvFrame ==
    /\ UNCHANGED <<nextId, redisUp, otherLeft, registry, lastRegistered, route, peer>>
    /\ UNCHANGED <<orchVars, stratVars, titleTask>>

\* getConversation: conversationRepository.findOne
GetConversationFindOne(p) ==
    /\ sv[p].op = "getConversation" /\ sv[p].pc = "findOne"
    /\ \/ sv' = [sv EXCEPT ![p] = Raised(@)]
       \/ sv' = [sv EXCEPT ![p] =
                    Returned([@ EXCEPT !.found = ConversationExists(sv[p].conv)])]
    /\ UNCHANGED <<db, cache, convs, listCache, title>>
    /\ ConvFrame

\* what invalidateConversationListCache does first: nothing when Redis is
\* not available, else the scan
Invalidate(call) == IF redisUp THEN [call EXCEPT !.pc = "scan"] ELSE Returned(call)

\* createConversation: conversationRepository.save
CreateConversationSave(p) ==
    /\ sv[p].op = "createConversation" /\ sv[p].pc = "saveConv"
    /\ \/ /\ sv' = [sv EXCEPT ![p] = Raised(@)]
          /\ UNCHANGED convs
       \/ /\ convs' = Append(convs, NextConvId)
          /\ sv' = [sv EXCEPT ![p] = Invalidate([@ EXCEPT !.conv = NextConvId])]
    /\ UNCHANGED <<db, cache, listCache, title>>
    /\ ConvFrame

\* updateTitle: conversationRepository.update(id, { title })
UpdateTitleUpdate(p) ==
    /\ sv[p].op = "updateTitle" /\ sv[p].pc = "update"
    /\ \/ /\ sv' = [sv EXCEPT ![p] = Raised(@)]
          /\ UNCHANGED title
       \/ /\ title' = IF ConversationExists(ConvId) /\ sv[p].conv = ConvId
                      THEN sv[p].title ELSE title
          /\ sv' = [sv EXCEPT ![p] = Invalidate(@)]
    /\ UNCHANGED <<db, cache, convs, listCache>>
    /\ ConvFrame

\* invalidateConversationListCache: the scan for chat:conversations:list:*;
\* no key found, or a Redis error (caught and logged), ends the invalidation
InvalidateScan(p) ==
    /\ sv[p].pc = "scan"
    /\ \E ok \in BOOLEAN :
          sv' = [sv EXCEPT ![p] =
                    IF ok /\ listCache.present THEN [@ EXCEPT !.pc = "del"]
                    ELSE Returned(@)]
    /\ UNCHANGED <<db, cache, convs, listCache, title>>
    /\ ConvFrame

\* invalidateConversationListCache: redisClient.del(keys); a failure is
\* caught and logged
InvalidateDel(p) ==
    /\ sv[p].pc = "del"
    /\ \/ listCache' = NoList
       \/ UNCHANGED listCache
    /\ sv' = [sv EXCEPT ![p] = Returned(@)]
    /\ UNCHANGED <<db, cache, convs, title>>
    /\ ConvFrame

\* getConversationsList: isRedisAvailable(), redisClient.get(cacheKey) and
\* JSON.parse(cached)
ListGet(p) ==
    /\ sv[p].op = "getConversationsList" /\ sv[p].pc = "get"
    /\ \E ok \in BOOLEAN :
          sv' = [sv EXCEPT ![p] =
                    IF redisUp /\ ok /\ listCache.present
                    THEN Returned([@ EXCEPT !.result = listCache.value.json])
                    ELSE [@ EXCEPT !.pc = "findList"]]
    /\ UNCHANGED <<db, cache, convs, listCache, title>>
    /\ ConvFrame

\* getConversationsList: conversationRepository.find and the mapping
ListFind(p) ==
    /\ sv[p].op = "getConversationsList" /\ sv[p].pc = "findList"
    /\ \/ sv' = [sv EXCEPT ![p] = Raised(@)]
       \/ sv' = [sv EXCEPT ![p] =
                    IF redisUp THEN [@ EXCEPT !.result = ConversationsList, !.pc = "set"]
                    ELSE Returned([@ EXCEPT !.result = ConversationsList])]
    /\ UNCHANGED <<db, cache, convs, listCache, title>>
    /\ ConvFrame

\* getConversationsList: redisClient.set(cacheKey, JSON.stringify(result),
\* { EX: 300 }), createdAt becoming a string; a failure is caught and logged
ListSet(p) ==
    /\ sv[p].op = "getConversationsList" /\ sv[p].pc = "set"
    /\ \/ listCache' =
             [present |-> TRUE,
              value |-> [json |-> MapSeq(sv[p].result,
                            LAMBDA c : [id |-> c.id, title |-> c.title,
                                        createdAt |-> [iso |-> c.createdAt.date]])]]
       \/ UNCHANGED listCache
    /\ sv' = [sv EXCEPT ![p] = Returned(@)]
    /\ UNCHANGED <<db, cache, convs, title>>
    /\ ConvFrame

\* the five-minute TTL of the list key runs out
ListCacheExpire ==
    /\ listCache.present
    /\ listCache' = NoList
    /\ UNCHANGED <<db, cache, convs, sv, title>>
    /\ ConvFrame

\* deleteConversation: messageRepository.delete({ conversationId: id })
DeleteMessages(p) ==
    /\ sv[p].op = "deleteConversation" /\ sv[p].pc = "deleteMessages"
    /\ \/ /\ sv' = [sv EXCEPT ![p] = Raised(@)]
          /\ UNCHANGED db
       \/ /\ db' = <<>>
          /\ sv' = [sv EXCEPT ![p] = [@ EXCEPT !.result = db, !.pc = "deleteConv"]]
    /\ UNCHANGED <<cache, convs, listCache, title>>
    /\ ConvFrame

\* deleteConversation: conversationRepository.delete(id) and the test of
\* result.affected; a message stored since the messages were deleted makes
\* the delete violate the foreign key of Message.conversationId
DeleteConv(p) ==
    /\ sv[p].op = "deleteConversation" /\ sv[p].pc = "deleteConv"
    /\ \/ /\ sv' = [sv EXCEPT ![p] = Raised(@)]
          /\ UNCHANGED convs
       \/ /\ db = <<>>
          /\ convs' = SelectSeq(convs, LAMBDA c : c # sv[p].conv)
          /\ sv' = [sv EXCEPT ![p] =
                      IF convs' = convs THEN Returned(@)
                      ELSE IF redisUp THEN [@ EXCEPT !.deleted = TRUE, !.pc = "delHistory"]
                      ELSE Returned([@ EXCEPT !.deleted = TRUE])]
    /\ UNCHANGED <<db, cache, listCache, title>>
    /\ ConvFrame

\* deleteConversation: redisClient.del(`chat:${id}:history`); a failure is
\* caught and logged; then invalidateConversationListCache
DeleteHistoryKey(p) ==
    /\ sv[p].op = "deleteConversation" /\ sv[p].pc = "delHistory"
    /\ \/ cache' = <<>>
       \/ UNCHANGED cache
    /\ sv' = [sv EXCEPT ![p].pc = "scan"]
    /\ UNCHANGED <<db, convs, listCache, title>>
    /\ ConvFrame

\* ------------------------------------------------------ ChatStrategyFactory
ChatTypes == {"STANDARD", "RAG"}

\* register() keeping the class a kind already has
RegistryAfterRegisterFirstWins(map, kind, class) ==
    IF map[kind] = "none" THEN [map EXCEPT ![kind] = class] ELSE map

\* static register(chatType, strategyClass): this.map.set(...)
RegistryAfterRegister(map, kind, class) == [map EXCEPT ![kind] = class]

\* the registry is extended while no message is being processed
Register ==
    /\ pc = "idle"
    /\ \E kind \in ChatTypes, class \in {"StandardLLMStrategy", "CustomStrategy"} :
          /\ registry[kind] # class
          /\ registry' = RegistryAfterRegister(registry, kind, class)
          /\ lastRegistered' = [lastRegistered EXCEPT ![kind] = class]
    /\ UNCHANGED <<db, nextId, cache, redisUp, sv, otherLeft, convVars>>
    /\ UNCHANGED <<orchVars, stratVars, titleVars>>

\* ------------------------------------------------------ StandardLLMStrategy
\* errors the OpenAI client raises: { name, status, code, message }
NoStatus == 0
ErrConnReset ==
    [name |-> "Error", status |-> NoStatus, code |-> "ECONNRESET",
     message |-> "raw ECONNRESET"]

\* controller.abort() after 30 s: the request is rejected with an abort error,
\* named "AbortError" or not, depending on the client library
ErrAbort ==
    [name |-> "AbortError", status |-> NoStatus, code |-> "none",
     message |-> "raw abort"]
ErrUserAbort ==
    [name |-> "Error", status |-> NoStatus, code |-> "none",
     message |-> "raw abort"]
AbortErrors == {ErrAbort, ErrUserAbort}

Errors ==
    { [name |-> "Error", status |-> 429, code |-> "none", message |-> "raw 429"],
      [name |-> "Error", status |-> 401, code |-> "none", message |-> "raw 401"],
      ErrConnReset,
      [name |-> "Error", status |-> NoStatus, code |-> "ETIMEDOUT",
       message |-> "raw ETIMEDOUT"],
      [name |-> "Error", status |-> 500, code |-> "none", message |-> "raw 500"] }
        \cup AbortErrors

NoError == [name |-> "none", status |-> NoStatus, code |-> "none", message |-> "none"]

\* inner catch of the chunk loop: an AbortError becomes
\* new Error("Request timed out"), anything else is rethrown
RethrowFromLoop(e) ==
    IF e.name = "AbortError"
    THEN [name |-> "Error", status |-> NoStatus, code |-> "none",
          message |-> "Request timed out"]
    ELSE e

\* ErrorMessage passing the raw text of an unclassified error on
ErrorMessageRaw(e) ==
    IF e.status = 429 THEN MsgRateLimit
    ELSE IF e.status = 401 THEN MsgInvalidKey
    ELSE IF e.code = "ECONNRESET" \/ e.code = "ETIMEDOUT" THEN MsgTimedOut
    ELSE e.message

\* outer catch: the user-facing message of an error
ErrorMessage(e) ==
    IF e.status = 429 THEN MsgRateLimit
    ELSE IF e.status = 401 THEN MsgInvalidKey
    ELSE IF e.code = "ECONNRESET" \/ e.code = "ETIMEDOUT" THEN MsgTimedOut
    ELSE MsgGeneric

NoChunk == <<>>

\* what fetchContextPerType and fetchContextBroad return when they fail
EmptyResult == [context |-> <<>>, matchCount |-> 0, links |-> <<>>]

\* no strategy yet; timer is the 30 s timer of generateResponse, rt the state
\* of one retrieval
NoStrategy ==
    [class |-> "none", pc |-> "none", memory |-> <<>>, left |-> 0,
     errMsg |-> "none", err |-> NoError, retrievalFailed |-> FALSE,
     timer |-> "none",
     rt |-> [stage |-> "none", slug |-> "none", embedCalls |-> 0, todo |-> <<>>,
             queries |-> <<>>, allMatches |-> <<>>, allLinks |-> <<>>,
             perType |-> EmptyResult, broad |-> <<>>, failures |-> {},
             context |-> <<>>, matchCount |-> 0]]

\* new StrategyClass(userId, memory, dbSession)
NewStrategy(class, mem) ==
    [NoStrategy EXCEPT !.class = class, !.memory = mem,
       !.pc = IF class = "StandardLLMStrategy" THEN "start" ELSE "custom",
       !.left = IF class = "StandardLLMStrategy" THEN MaxChunks ELSE MaxCustomFrames]

\* the generator runs only while the for-await loop is waiting for a frame
Pulled(class) ==
    /\ pc = "stream"
    /\ chunk = NoChunk
    /\ st.class = class

\* `yield frame` of the strategy
Yield(frame) ==
    /\ chunk' = frame
    /\ stratFrames' = Append(stratFrames, frame)

StratFrame ==
    /\ UNCHANGED <<db, nextId, cache, redisUp, sv, otherLeft, registry, lastRegistered, convVars>>
    /\ UNCHANGED <<orchVars, titleVars>>

\* yield "[CALL_TO]\n\n"
GenCallTo ==
    /\ Pulled("StandardLLMStrategy") /\ st.pc = "start"
    /\ Yield(CallToFrame)
    /\ st' = [st EXCEPT !.pc = "name"]
    /\ UNCHANGED increments
    /\ StratFrame

\* yield "data: STANDARD_STRATEGY\n\n"
GenName ==
    /\ Pulled("StandardLLMStrategy") /\ st.pc = "name"
    /\ Yield(StrategyNameFrame)
    /\ st' = [st EXCEPT !.pc = "retrieve"]
    /\ UNCHANGED increments
    /\ StratFrame

\* detectCard, then fetchContextPerType and/or fetchContextBroad; each of
\* them catches its own errors and returns null or an empty result
GenRetrieve ==
    /\ Pulled("StandardLLMStrategy") /\ st.pc = "retrieve"
    /\ \E failed \in BOOLEAN :
          st' = [st EXCEPT !.pc = "create", !.retrievalFailed = failed]
    /\ UNCHANGED <<chunk, stratFrames, increments>>
    /\ StratFrame

\* setTimeout(() => controller.abort(), 30000), then
\* openai.chat.completions.create({stream: true}, {signal}): the stream, or
\* an error that goes straight to the outer catch, the abort by the timer
\* that has fired included
GenCreate ==
    /\ Pulled("StandardLLMStrategy") /\ st.pc = "create"
    /\ \/ st' = [st EXCEPT !.pc = "iterate", !.timer = "pending"]
       \/ \E e \in Errors :
             st' = [st EXCEPT !.pc = "error", !.err = e, !.errMsg = ErrorMessage(e),
                              !.timer = IF e \in AbortErrors THEN "fired"
                                        ELSE "pending"]
    /\ UNCHANGED <<chunk, stratFrames, increments>>
    /\ StratFrame

\* one chunk of the stream: if (content) yield `data: ${content}\n\n`
GenChunk ==
    /\ Pulled("StandardLLMStrategy") /\ st.pc = "iterate"
    /\ st.left > 0
    \* chunk.choices[0]?.delta?.content (<<>> is an empty or missing content)
    /\ \E content \in { <<>>, <<"a">>, <<"[", "a">>, <<"a", "{">>,
                        <<"a", NL, NL, "a">>, <<"STANDARD_STRATEGY">> } :
          /\ st' = [st EXCEPT !.left = @ - 1]
          /\ IF content # <<>>
             THEN /\ Yield(DataFrame(content))
                  /\ increments' = Append(increments, content)
             ELSE UNCHANGED <<chunk, stratFrames, increments>>
    /\ StratFrame

\* GenStreamEnd without its yield
GenStreamEndNoDone ==
    /\ Pulled("StandardLLMStrategy") /\ st.pc = "iterate"
    /\ st' = [st EXCEPT !.pc = "finish"]
    /\ UNCHANGED <<chunk, stratFrames, increments>>
    /\ StratFrame

\* the stream ends: clearTimeout, yield "[DONE]\n\n"
GenStreamEnd ==
    /\ Pulled("StandardLLMStrategy") /\ st.pc = "iterate"
    /\ Yield(DoneFrame)
    /\ st' = [st EXCEPT !.pc = "finish", !.timer = "cleared"]
    /\ UNCHANGED increments
    /\ StratFrame

\* GenStreamError without the outer catch: the error leaves the generator
GenStreamErrorRaises ==
    /\ Pulled("StandardLLMStrategy") /\ st.pc = "iterate"
    /\ \E e \in Errors : st' = [st EXCEPT !.pc = "raised", !.err = e]
    /\ UNCHANGED <<chunk, stratFrames, increments>>
    /\ StratFrame

\* the stream fails while it is iterated (provider error, network error or
\* the abort of the 30 s timer): inner catch with its clearTimeout, then
\* outer catch
GenStreamError ==
    /\ Pulled("StandardLLMStrategy") /\ st.pc = "iterate"
    /\ \E e \in Errors :
          st' = [st EXCEPT !.pc = "error", !.err = e,
                           !.errMsg = ErrorMessage(RethrowFromLoop(e)),
                           !.timer = IF e \in AbortErrors THEN "fired"
                                     ELSE "cleared"]
    /\ UNCHANGED <<chunk, stratFrames, increments>>
    /\ StratFrame

\* outer catch: yield "[ERROR]\n\n"
GenErrorMarker ==
    /\ Pulled("StandardLLMStrategy") /\ st.pc = "error"
    /\ Yield(ErrorFrame)
    /\ st' = [st EXCEPT !.pc = "errorPayload"]
    /\ UNCHANGED increments
    /\ StratFrame

\* outer catch: yield `data: ${JSON.stringify({ message: errorMessage })}\n\n`
GenErrorPayload ==
    /\ Pulled("StandardLLMStrategy") /\ st.pc = "errorPayload"
    /\ Yield(DataFrame(JsonMessage(st.errMsg)))
    /\ st' = [st EXCEPT !.pc = "errorDone"]
    /\ UNCHANGED increments
    /\ StratFrame

\* GenErrorDone without its yield: the error sequence is left unterminated
GenErrorDoneMissing ==
    /\ Pulled("StandardLLMStrategy") /\ st.pc = "errorDone"
    /\ st' = [st EXCEPT !.pc = "finish"]
    /\ UNCHANGED <<chunk, stratFrames, increments>>
    /\ StratFrame

\* outer catch: yield "[DONE]\n\n"
GenErrorDone ==
    /\ Pulled("StandardLLMStrategy") /\ st.pc = "errorDone"
    /\ Yield(DoneFrame)
    /\ st' = [st EXCEPT !.pc = "finish"]
    /\ UNCHANGED increments
    /\ StratFrame

\* a strategy registered through register(): any BaseChatStrategy, whose
\* generateResponse yields a frame, returns, or raises
GenCustomYield ==
    /\ Pulled("CustomStrategy") /\ st.pc = "custom"
    /\ st.left > 0
    /\ \E frame \in { DataFrame(<<"a">>), DataFrame(<<"[", "a">>), DoneFrame,
                      <<"a">> } : Yield(frame)
    /\ st' = [st EXCEPT !.left = @ - 1]
    /\ UNCHANGED increments
    /\ StratFrame

GenCustomReturn ==
    /\ Pulled("CustomStrategy") /\ st.pc = "custom"
    /\ st' = [st EXCEPT !.pc = "finish"]
    /\ UNCHANGED <<chunk, stratFrames, increments>>
    /\ StratFrame

GenCustomRaise ==
    /\ Pulled("CustomStrategy") /\ st.pc = "custom"
    /\ st' = [st EXCEPT !.pc = "raised"]
    /\ UNCHANGED <<chunk, stratFrames, increments>>
    /\ StratFrame

\* ------------------------------------------- retrieval (StandardLLMStrategy)
Falsy(v) == v \in {"null", "", "undefined"}

OrUndefined(v) == IF Falsy(v) THEN "undefined" ELSE v

NullDetection ==
    [null |-> TRUE, cardName |-> "undefined", cardSlug |-> "undefined"]

\* detectCard(query): null on any error, on a missing answer and when no
\* field is set (chunkType is requested but never used afterwards)
DetectCard(response) ==
    IF response.kind # "json" THEN NullDetection
    ELSE IF Falsy(response.cardName) /\ Falsy(response.cardSlug) THEN NullDetection
    ELSE [null |-> FALSE, cardName |-> OrUndefined(response.cardName),
          cardSlug |-> OrUndefined(response.cardSlug)]

UpperCase ==
    << "A", "B", "C", "D", "E", "F", "G", "H", "I", "J", "K", "L", "M",
       "N", "O", "P", "Q", "R", "S", "T", "U", "V", "W", "X", "Y", "Z" >>

\* query.toLowerCase(), one token per character
ToLowerCase(text) ==
    LET lowerCase ==
            << "a", "b", "c", "d", "e", "f", "g", "h", "i", "j", "k", "l", "m",
               "n", "o", "p", "q", "r", "s", "t", "u", "v", "w", "x", "y", "z" >>
    IN  [i \in 1..Len(text) |->
            IF \E k \in DOMAIN UpperCase : UpperCase[k] = text[i]
            THEN lowerCase[CHOOSE k \in DOMAIN UpperCase : UpperCase[k] = text[i]]
            ELSE text[i]]

LinksKeywords ==
    { <<"k", "f", "s">>,
      <<"k", "e", "y", " ", "f", "a", "c", "t", "s", " ",
        "s", "t", "a", "t", "e", "m", "e", "n", "t">>,
      <<"f", "e", "e", "s">>,
      <<"c", "h", "a", "r", "g", "e", "s">>,
      <<"t", "e", "r", "m", "s">>,
      <<"c", "o", "n", "d", "i", "t", "i", "o", "n", "s">>,
      <<"p", "d", "f">>,
      <<"d", "o", "c", "u", "m", "e", "n", "t">>,
      <<"f", "u", "l", "l", " ", "d", "e", "t", "a", "i", "l", "s">>,
      <<"l", "i", "n", "k">>,
      <<"w", "h", "e", "r", "e", " ", "c", "a", "n", " ", "i", " ",
        "f", "i", "n", "d">>,
      <<"d", "o", "w", "n", "l", "o", "a", "d">>,
      <<"s", "t", "a", "t", "e", "m", "e", "n", "t">>,
      <<"a", "g", "r", "e", "e", "m", "e", "n", "t">> }

\* NeedsImportantLinks comparing the query as it was typed
NeedsImportantLinksCaseSensitive(query) ==
    \E keyword \in LinksKeywords : Includes(query, keyword)

\* needsImportantLinks(query)
NeedsImportantLinks(query) ==
    \E keyword \in LinksKeywords : Includes(ToLowerCase(query), keyword)

BaseChunkTypes == << "card_info", "benefits_list", "card_benefits_detail" >>

\* the chunk types fetchContextPerType queries, in the order of its loop
ChunkTypesFor(query) ==
    IF NeedsImportantLinks(query)
    THEN Append(BaseChunkTypes, "important_links")
    ELSE BaseChunkTypes

\* the unfiltered query of fetchContextBroad
NoFilter == [card_slug |-> "none", chunk_type |-> "none"]

\* the matches a query filtered on slug and chunk type may return: ids,
\* scores and metadata of the chunks of the vector index
Matches(slug, chunkType) ==
    { [id |-> id, score |-> score,
       metadata |-> [card_slug |-> slug, chunk_type |-> chunkType, url |-> url,
                     content |-> <<"content", id, chunkType>>]] :
          id \in 1..MaxChunkIds, score \in {1, 2}, url \in {"none", "u1", "u2"} }

\* the answers of the unfiltered query: up to MaxBroadMatches matches with
\* distinct ids, best score first
BroadResults ==
    LET broadMatches ==
            Matches("slug", "card_info") \cup Matches("other", "important_links")
    IN  { ms \in UNION { [1..n -> broadMatches] : n \in 0..MaxBroadMatches } :
            /\ \A i, j \in DOMAIN ms : i < j => ms[i].id # ms[j].id
            /\ \A i, j \in DOMAIN ms : i < j => ms[i].score >= ms[j].score }

\* allLinks.add(match.metadata.url) for the matches of one query
AddLinks(links, matches) ==
    IF matches = <<>> THEN links
    ELSE LET url == matches[1].metadata.url
         IN  IF url = "none" \/ (\E i \in DOMAIN links : links[i] = url)
             THEN links
             ELSE Append(links, url)

\* UniqueById without the seenIds test
UniqueByIdKeepAll(ms) == ms

\* allMatches.filter(...) with seenIds: the first match of each id
UniqueById(ms) ==
    LET first(i) == \A j \in 1..(i - 1) : ms[j].id # ms[i].id
        F[i \in 0..Len(ms)] ==
            IF i = 0 THEN <<>>
            ELSE IF first(i) THEN Append(F[i - 1], ms[i]) ELSE F[i - 1]
    IN  F[Len(ms)]

\* uniqueMatches.sort((a, b) => b.score - a.score): stable, best score first
RECURSIVE SortByScore(_)
SortByScore(ms) ==
    IF ms = <<>> THEN <<>>
    ELSE LET h == Head(ms)
             rest == SortByScore(Tail(ms))
         IN  SelectSeq(rest, LAMBDA m : m.score > h.score)
               \o <<h>>
               \o SelectSeq(rest, LAMBDA m : m.score <= h.score)

\* the text block of a match, standard formatting
StandardBlock(m) ==
    [format |-> "standard", id |-> m.id, score |-> m.score,
     card_slug |-> m.metadata.card_slug, chunk_type |-> m.metadata.chunk_type,
     url |-> IF m.metadata.url = "none" THEN "N/A" ELSE m.metadata.url,
     content |-> m.metadata.content]

\* the text block of a match: no URL line for an important_links match
ChunkBlock(m) ==
    IF m.metadata.chunk_type = "important_links"
    THEN [format |-> "links", id |-> m.id, score |-> m.score,
          card_slug |-> m.metadata.card_slug, chunk_type |-> "important_links",
          content |-> m.metadata.content]
    ELSE StandardBlock(m)

\* fetchContextPerType after its loop: deduplicate, sort, build the context,
\* the "Additional Relevant URLs" block last
BuildPerType(allMatches, allLinks) ==
    LET uniqueMatches == SortByScore(UniqueById(allMatches))
        contextChunks ==
            MapSeq(uniqueMatches, ChunkBlock)
              \o (IF Len(allLinks) > 0 THEN <<[format |-> "urls", urls |-> allLinks]>> ELSE <<>>)
    IN  [context |-> contextChunks, matchCount |-> Len(uniqueMatches),
         links |-> allLinks]

\* fetchContextBroad after its query
BuildBroad(matches) ==
    [context |-> MapSeq(matches, StandardBlock), matchCount |-> Len(matches),
     links |-> <<>>]

\* FallsBack never taking the broad path after a targeted retrieval
FallsBackNever(matchCount) == FALSE

\* if (matchCount === 0) after fetchContextPerType
FallsBack(matchCount) == matchCount = 0

RetrievalFrame ==
    /\ UNCHANGED <<chunk, stratFrames, increments>>
    /\ StratFrame

\* generateResponse binds context and matchCount and goes on to the model call
Retrieved(rt, result) ==
    [st EXCEPT !.pc = "create",
               !.rt = [rt EXCEPT !.stage = "done", !.context = result.context,
                                 !.matchCount = result.matchCount]]

\* generateResponse after fetchContextPerType has returned `result`
AfterPerType(rt, result) ==
    IF FallsBack(result.matchCount)
    THEN [st EXCEPT !.rt = [rt EXCEPT !.stage = "broadEmbed", !.perType = result]]
    ELSE Retrieved([rt EXCEPT !.perType = result], result)

\* detected = await this.detectCard(userQuery), and the choice of the path
RtDetect ==
    /\ Pulled("StandardLLMStrategy") /\ st.pc = "retrieve"
    /\ st.rt.stage = "none"
    /\ \E response \in
             { [kind |-> k, cardName |-> "null", cardSlug |-> "null"] :
                   k \in {"throws", "empty", "text", "badjson"} }
             \cup { [kind |-> "json", cardName |-> n, cardSlug |-> s] :
                       n \in {"null", "card"}, s \in {"null", "", "slug"} } :
          LET detected == DetectCard(response)
              failures == IF response.kind \in {"throws", "badjson"}
                          THEN {"classification"} ELSE {}
          IN  st' = [st EXCEPT !.rt =
                        IF ~detected.null /\ ~Falsy(detected.cardSlug)
                        THEN [@ EXCEPT !.stage = "embed", !.slug = detected.cardSlug,
                                       !.failures = failures]
                        ELSE [@ EXCEPT !.stage = "broadEmbed", !.failures = failures]]
    /\ RetrievalFrame

\* PerTypeEmbeddingFailed letting the error leave fetchContextPerType
PerTypeEmbeddingFailedRaises(rt) == [st EXCEPT !.pc = "raised", !.rt = rt]

\* outer catch of fetchContextPerType: the empty result
PerTypeEmbeddingFailed(rt) == AfterPerType(rt, EmptyResult)

\* fetchContextPerType: openai.embeddings.create, then the list of chunk types
RtEmbed ==
    /\ Pulled("StandardLLMStrategy") /\ st.pc = "retrieve"
    /\ st.rt.stage = "embed"
    /\ LET rt == [st.rt EXCEPT !.embedCalls = @ + 1]
       IN  \/ st' = [st EXCEPT !.rt = [rt EXCEPT !.stage = "query",
                                                !.todo = ChunkTypesFor(message)]]
           \/ st' = PerTypeEmbeddingFailed(
                       [rt EXCEPT !.failures = @ \cup {"embedding"}])
    /\ RetrievalFrame

\* fetchContextPerType: one pass of the loop over the chunk types, and after
\* the last one the rest of the function and the test of its match count
RtQuery ==
    /\ Pulled("StandardLLMStrategy") /\ st.pc = "retrieve"
    /\ st.rt.stage = "query"
    /\ LET chunkType == Head(st.rt.todo)
           issued == [st.rt EXCEPT
                         !.todo = Tail(@),
                         !.queries = Append(@, [topK |-> 1,
                                                filter |-> [card_slug |-> st.rt.slug,
                                                            chunk_type |-> chunkType]])]
           After(rt) == IF rt.todo = <<>>
                        THEN AfterPerType(rt, BuildPerType(rt.allMatches, rt.allLinks))
                        ELSE [st EXCEPT !.rt = rt]
       IN  \/ st' = After([issued EXCEPT !.failures = @ \cup {"query"}])
           \/ \E matches \in {<<>>} \cup { <<m>> : m \in Matches(st.rt.slug, chunkType) } :
                 st' = After([issued EXCEPT
                                 !.allMatches = @ \o matches,
                                 !.allLinks = AddLinks(@, matches)])
    /\ RetrievalFrame

\* fetchContextBroad: its own openai.embeddings.create
RtBroadEmbed ==
    /\ Pulled("StandardLLMStrategy") /\ st.pc = "retrieve"
    /\ st.rt.stage = "broadEmbed"
    /\ LET rt == [st.rt EXCEPT !.embedCalls = @ + 1]
       IN  \/ st' = [st EXCEPT !.rt = [rt EXCEPT !.stage = "broadQuery"]]
           \/ st' = Retrieved([rt EXCEPT !.failures = @ \cup {"broadEmbedding"}],
                              EmptyResult)
    /\ RetrievalFrame

\* fetchContextBroad: the unfiltered query and the context built from it
RtBroadQuery ==
    /\ Pulled("StandardLLMStrategy") /\ st.pc = "retrieve"
    /\ st.rt.stage = "broadQuery"
    /\ LET issued == [st.rt EXCEPT
                         !.queries = Append(@, [topK |-> 10, filter |-> NoFilter])]
       IN  \/ st' = Retrieved([issued EXCEPT !.failures = @ \cup {"broadQuery"}],
                              EmptyResult)
           \/ \E matches \in BroadResults :
                 st' = Retrieved([issued EXCEPT !.broad = matches], BuildBroad(matches))
    /\ RetrievalFrame

\* ---------------------------------------------------------- generateTitle
\* openai.chat.completions.create for the title: it fails, or answers with
\* an empty or a non-empty title; errors are caught and logged
TitleCall ==
    /\ titleTask = "calling"
    /\ \E outcome \in {"updating", "done", "failed"} : titleTask' = outcome
    /\ UNCHANGED title
    /\ UNCHANGED <<db, nextId, cache, redisUp, sv, otherLeft, registry, lastRegistered, convVars>>
    /\ UNCHANGED <<orchVars, stratVars>>

\* chatService.updateTitle(conversationId, title): the update, then the
\* invalidation of the list cache, whose Redis errors are swallowed; the errors
\* of updateTitle are caught and logged
TitleUpdate ==
    /\ titleTask = "updating"
    /\ \/ /\ titleTask' = "done"
          /\ title' = "generated"
          /\ listCache' \in (IF redisUp THEN {NoList, listCache} ELSE {listCache})
       \/ /\ titleTask' = "failed"
          /\ UNCHANGED <<title, listCache>>
    /\ UNCHANGED <<db, nextId, cache, redisUp, sv, otherLeft, registry, lastRegistered>>
    /\ UNCHANGED <<convs, route, peer>>
    /\ UNCHANGED <<orchVars, stratVars>>

\* -------------------------------------------------------- ChatOrchestrator
\* the text of a chunk that is added to fullResponse
ChunkText(c) ==
    IF StartsWith(c, DataPrefix)
    THEN LET content == ReplaceFirst(ReplaceFirst(c, DataPrefix, <<>>), FrameEnd, <<>>)
         IN  IF /\ ~StartsWith(content, <<"[">>)
                /\ ~Includes(content, <<"{">>)
                /\ content \notin { <<"STANDARD_STRATEGY">>, <<"RAG_STRATEGY">>,
                                    <<"AGENT_STRATEGY">> }
             THEN content
             ELSE <<>>
    ELSE <<>>

\* Forward yielding the parsed content instead of the chunk
ForwardStripped(c) == ReplaceFirst(c, DataPrefix, <<>>)

\* `yield chunk`: the frame handed to the caller
Forward(c) == c

\* the frames of the catch block of processMessage
OrchestratorErrorFrames ==
    << ErrorFrame, DataFrame(JsonMessage(MsgOrchestrator)), DoneFrame >>

\* AfterUserAppend with the step-1 error swallowed
AfterUserAppendSwallowed(status) == "load"

\* what follows the step-1 addMessage
AfterUserAppend(status) == IF status = "raised" THEN "raised" ELSE "load"

\* AfterCatch without the `return`: control falls through to step 5
AfterCatchFallThrough(text) == IF text # <<>> THEN "addAi" ELSE "done"

\* what follows the catch block: `return`
AfterCatch(text) == "done"

\* what follows the for-await loop: if (fullResponse) addMessage(..., "ai", ...)
AfterStream(text) == IF text # <<>> THEN "addAi" ELSE "done"

\* the caller starts consuming processMessage(message, chatType);
\* step 1: chatService.addMessage(conversationId, "user", message)
ProcessMessageOf(texts) ==
    /\ pc = "idle"
    /\ \E m \in texts, kind \in ChatTypes :
          /\ message' = m
          /\ chatType' = kind
          /\ sv' = [sv EXCEPT !["orch"] = BeginAddMessage("user", m)]
    /\ pc' = "addUser"
    /\ steps' = Append(steps, "addMessage:user")
    /\ UNCHANGED <<userSaved, memory, fullResponse, frames>>
    /\ UNCHANGED <<db, nextId, cache, redisUp, otherLeft, registry, lastRegistered, convVars>>
    /\ UNCHANGED <<stratVars, titleVars>>

ProcessMessage == ProcessMessageOf({ <<"a">>, <<"[", "a">> })

\* OrchAfterAddUser not awaiting the step-1 addMessage
OrchAfterAddUserNoAwait ==
    /\ pc = "addUser"
    /\ pc' = AfterUserAppend(sv["orch"].status)
    /\ IF pc' = "load"
       THEN /\ userSaved' = sv["orch"].saved
            /\ sv' = [sv EXCEPT !["orch"] = BeginGetHistory]
            /\ steps' = Append(steps, "getHistory")
       ELSE /\ sv' = [sv EXCEPT !["orch"] = NoCall]
            /\ UNCHANGED <<userSaved, steps>>
    /\ UNCHANGED <<message, chatType, memory, fullResponse, frames>>
    /\ UNCHANGED <<db, nextId, cache, redisUp, otherLeft, registry, lastRegistered, convVars>>
    /\ UNCHANGED <<stratVars, titleVars>>

\* step 1 is over: its error propagates, or step 2 starts:
\* chatService.getHistory(conversationId)
OrchAfterAddUser ==
    /\ pc = "addUser"
    /\ sv["orch"].status # "running"
    /\ pc' = AfterUserAppend(sv["orch"].status)
    /\ IF pc' = "load"
       THEN /\ userSaved' = sv["orch"].saved
            /\ sv' = [sv EXCEPT !["orch"] = BeginGetHistory]
            /\ steps' = Append(steps, "getHistory")
       ELSE /\ sv' = [sv EXCEPT !["orch"] = NoCall]
            /\ UNCHANGED <<userSaved, steps>>
    /\ UNCHANGED <<message, chatType, memory, fullResponse, frames>>
    /\ UNCHANGED <<db, nextId, cache, redisUp, otherLeft, registry, lastRegistered, convVars>>
    /\ UNCHANGED <<stratVars, titleVars>>

\* step 2 is over: its error propagates, or memory is bound, the title task
\* is started when memory.length === 1, and ChatStrategyFactory.getStrategy
\* constructs the strategy (unknown kind and a throwing constructor propagate)
OrchAfterLoad ==
    /\ pc = "load"
    /\ sv["orch"].status # "running"
    /\ sv' = [sv EXCEPT !["orch"] = NoCall]
    /\ IF sv["orch"].status = "raised"
       THEN /\ pc' = "raised"
            /\ UNCHANGED <<memory, steps, st, titleTask>>
       ELSE LET mem == sv["orch"].result
                first == Len(mem) = 1
                \* getStrategy(chatType, ...args): the class to construct,
                \* or "unknown" for `throw new Error("Unknown chat type")`
                class == IF registry[chatType] = "none" THEN "unknown"
                         ELSE registry[chatType]
                log == steps \o (IF first THEN <<"generateTitle">> ELSE <<>>)
                             \o <<"getStrategy">>
            IN  /\ memory' = [loaded |-> TRUE, msgs |-> mem]
                /\ titleTask' = IF first THEN "calling" ELSE titleTask
                /\ \/ /\ class # "unknown"
                      /\ st' = NewStrategy(class, mem)
                      /\ pc' = "stream"
                      /\ steps' = log \o <<"generateResponse">>
                   \/ /\ pc' = "raised"
                      /\ steps' = log \o (IF class = "unknown"
                                          THEN <<"throw:UnknownChatType">>
                                          ELSE <<"throw:constructor">>)
                      /\ UNCHANGED st
    /\ UNCHANGED <<message, chatType, userSaved, fullResponse, frames>>
    /\ UNCHANGED <<db, nextId, cache, redisUp, otherLeft, registry, lastRegistered, convVars>>
    /\ UNCHANGED <<chunk, stratFrames, increments, title>>

\* body of the for-await loop: yield chunk, then add its text to fullResponse
OrchConsume ==
    /\ pc = "stream"
    /\ chunk # NoChunk
    /\ frames' = Append(frames, Forward(chunk))
    /\ fullResponse' = fullResponse \o ChunkText(chunk)
    /\ chunk' = NoChunk
    /\ UNCHANGED <<pc, message, chatType, userSaved, memory, steps>>
    /\ UNCHANGED <<db, nextId, cache, redisUp, sv, otherLeft, registry, lastRegistered, convVars>>
    /\ UNCHANGED <<st, stratFrames, increments, titleVars>>

\* OrchCatch rolling the user message back
OrchCatchRollback ==
    /\ pc = "stream"
    /\ chunk = NoChunk
    /\ st.pc = "raised"
    /\ frames' = frames \o OrchestratorErrorFrames
    /\ pc' = "done"
    /\ db' = SelectSeq(db, LAMBDA m : m # userSaved)
    /\ UNCHANGED <<message, chatType, userSaved, memory, fullResponse, steps>>
    /\ UNCHANGED <<nextId, cache, redisUp, sv, otherLeft, registry, lastRegistered, convVars>>
    /\ UNCHANGED <<stratVars, titleVars>>

\* catch block: the strategy's generator raised
OrchCatch ==
    /\ pc = "stream"
    /\ chunk = NoChunk
    /\ st.pc = "raised"
    /\ frames' = frames \o OrchestratorErrorFrames
    /\ pc' = AfterCatch(fullResponse)
    /\ IF pc' = "addAi"
       THEN /\ sv' = [sv EXCEPT !["orch"] = BeginAddMessage("ai", fullResponse)]
            /\ steps' = Append(steps, "addMessage:ai")
       ELSE UNCHANGED <<sv, steps>>
    /\ UNCHANGED <<message, chatType, userSaved, memory, fullResponse>>
    /\ UNCHANGED <<db, nextId, cache, redisUp, otherLeft, registry, lastRegistered, convVars>>
    /\ UNCHANGED <<stratVars, titleVars>>

\* OrchAfterStream awaiting the title task first
OrchAfterStreamAwaitsTitle ==
    /\ pc = "stream"
    /\ chunk = NoChunk
    /\ st.pc = "finish"
    /\ titleTask \notin {"calling", "updating"}
    /\ pc' = AfterStream(fullResponse)
    /\ IF pc' = "addAi"
       THEN /\ sv' = [sv EXCEPT !["orch"] = BeginAddMessage("ai", fullResponse)]
            /\ steps' = Append(steps, "addMessage:ai")
       ELSE UNCHANGED <<sv, steps>>
    /\ UNCHANGED <<message, chatType, userSaved, memory, fullResponse, frames>>
    /\ UNCHANGED <<db, nextId, cache, redisUp, otherLeft, registry, lastRegistered, convVars>>
    /\ UNCHANGED <<stratVars, titleVars>>

\* OrchAfterStream not waiting for the caller to take the last chunk
OrchAfterStreamBeforeHandOver ==
    /\ pc = "stream"
    /\ st.pc = "finish"
    /\ pc' = AfterStream(fullResponse)
    /\ IF pc' = "addAi"
       THEN /\ sv' = [sv EXCEPT !["orch"] = BeginAddMessage("ai", fullResponse)]
            /\ steps' = Append(steps, "addMessage:ai")
       ELSE UNCHANGED <<sv, steps>>
    /\ UNCHANGED <<message, chatType, userSaved, memory, fullResponse, frames>>
    /\ UNCHANGED <<db, nextId, cache, redisUp, otherLeft, registry, lastRegistered, convVars>>
    /\ UNCHANGED <<stratVars, titleVars>>

\* the generator returned; step 5: save the AI response if there is one
OrchAfterStream ==
    /\ pc = "stream"
    /\ chunk = NoChunk
    /\ st.pc = "finish"
    /\ pc' = AfterStream(fullResponse)
    /\ IF pc' = "addAi"
       THEN /\ sv' = [sv EXCEPT !["orch"] = BeginAddMessage("ai", fullResponse)]
            /\ steps' = Append(steps, "addMessage:ai")
       ELSE UNCHANGED <<sv, steps>>
    /\ UNCHANGED <<message, chatType, userSaved, memory, fullResponse, frames>>
    /\ UNCHANGED <<db, nextId, cache, redisUp, otherLeft, registry, lastRegistered, convVars>>
    /\ UNCHANGED <<stratVars, titleVars>>

\* step 5 is over: its error propagates, or processMessage returns
OrchAfterAddAi ==
    /\ pc = "addAi"
    /\ sv["orch"].status # "running"
    /\ pc' = IF sv["orch"].status = "raised" THEN "raised" ELSE "done"
    /\ sv' = [sv EXCEPT !["orch"] = NoCall]
    /\ UNCHANGED <<message, chatType, userSaved, memory, fullResponse, frames, steps>>
    /\ UNCHANGED <<db, nextId, cache, redisUp, otherLeft, registry, lastRegistered, convVars>>
    /\ UNCHANGED <<stratVars, titleVars>>

\* the caller has received [DONE] and does not resume the generator, which
\* stays suspended at `yield chunk` (or is closed by return())
CallerStops ==
    /\ pc = "stream"
    /\ chunk = NoChunk
    /\ frames # <<>>
    /\ frames[Len(frames)] = DoneFrame
    /\ pc' = "abandoned"
    /\ UNCHANGED <<message, chatType, userSaved, memory, fullResponse, frames, steps>>
    /\ UNCHANGED <<db, nextId, cache, redisUp, sv, otherLeft, registry, lastRegistered, convVars>>
    /\ UNCHANGED <<stratVars, titleVars>>

\* ReplyOf keeping the error payload frames
RECURSIVE ReplyOfKeepsBraces(_)
ReplyOfKeepsBraces(chunks) ==
    IF chunks = <<>> THEN <<>>
    ELSE LET c == Head(chunks)
             content == ReplaceFirst(ReplaceFirst(c, DataPrefix, <<>>), FrameEnd, <<>>)
             text == IF /\ StartsWith(c, DataPrefix)
                        /\ ~StartsWith(content, <<"[">>)
                        /\ content \notin
                              { <<"STANDARD_STRATEGY">>, <<"RAG_STRATEGY">>,
                                <<"AGENT_STRATEGY">> }
                     THEN content ELSE <<>>
         IN  text \o ReplyOfKeepsBraces(Tail(chunks))

\* non-streaming branch: fullResponse after the for-await loop over the
\* chunks of processMessage
RECURSIVE ReplyOf(_)
ReplyOf(chunks) ==
    IF chunks = <<>> THEN <<>>
    ELSE LET c == Head(chunks)
             content == ReplaceFirst(ReplaceFirst(c, DataPrefix, <<>>), FrameEnd, <<>>)
             text == IF /\ StartsWith(c, DataPrefix)
                        /\ ~StartsWith(content, <<"[">>)
                        /\ ~Includes(content, <<"{">>)
                        /\ content \notin
                              { <<"STANDARD_STRATEGY">>, <<"RAG_STRATEGY">>,
                                <<"AGENT_STRATEGY">> }
                     THEN content ELSE <<>>
         IN  text \o ReplyOf(Tail(chunks))

\* NonStreamingResponse answering 500 for an in-band [ERROR] too
NonStreamingResponseReportsInBand ==
    IF pc = "raised" \/ \E i \in DOMAIN frames : frames[i] = ErrorFrame
    THEN [status |-> 500, error |-> "Internal Server Error", reply |-> <<>>]
    ELSE [status |-> 200, error |-> "none", reply |-> ReplyOf(frames)]

\* the answer of the non-streaming branch once processMessage is over:
\* res.json({ reply, sessionId }), or 500 from its catch
NonStreamingResponse ==
    IF pc = "raised"
    THEN [status |-> 500, error |-> "Internal Server Error", reply |-> <<>>]
    ELSE [status |-> 200, error |-> "none", reply |-> ReplyOf(frames)]

\* a second processMessage call on the same conversation, steps 1 and 2
PeerFrame ==
    /\ UNCHANGED <<db, nextId, cache, redisUp, otherLeft, registry, lastRegistered>>
    /\ UNCHANGED <<convs, listCache, route>>
    /\ UNCHANGED <<orchVars, stratVars, titleVars>>

\* step 1: chatService.addMessage(conversationId, "user", message)
PeerProcessMessage ==
    /\ peer.pc = "idle"
    /\ sv["other"].status # "running"
    /\ sv' = [sv EXCEPT !["other"] = BeginAddMessage("user", OtherText)]
    /\ peer' = [peer EXCEPT !.pc = "addUser"]
    /\ PeerFrame

\* step 1 is over: its error propagates, or chatService.getHistory starts
PeerAfterAddUser ==
    /\ peer.pc = "addUser"
    /\ sv["other"].status # "running"
    /\ peer' = [peer EXCEPT !.pc = AfterUserAppend(sv["other"].status)]
    /\ sv' = [sv EXCEPT !["other"] =
                IF peer'.pc = "load" THEN BeginGetHistory ELSE NoCall]
    /\ PeerFrame

\* step 2 is over: its error propagates, or generateTitle is started when
\* memory.length === 1
PeerAfterLoad ==
    /\ peer.pc = "load"
    /\ sv["other"].status # "running"
    /\ peer' = IF sv["other"].status = "raised"
               THEN [peer EXCEPT !.pc = "raised"]
               ELSE [pc |-> "stream", first |-> Len(sv["other"].result) = 1]
    /\ sv' = [sv EXCEPT !["other"] = NoCall]
    /\ PeerFrame

\* ------------------------------------------------- POST /chat/message route
\* a run of MaxMessageLength characters that are not white space, as one token
MaxMessageLength == 100000
LongRun == "x repeated MaxMessageLength times"

\* String.prototype.length
RECURSIVE StringLength(_)
StringLength(text) ==
    IF text = <<>> THEN 0
    ELSE (IF Head(text) = LongRun THEN MaxMessageLength ELSE 1)
         + StringLength(Tail(text))

\* String.prototype.trim
Trim(text) ==
    LET solid == {i \in DOMAIN text : text[i] \notin {" ", "\t", NL}}
    IN  IF solid = {} THEN <<>>
        ELSE SubSeq(text, CHOOSE i \in solid : \A j \in solid : i <= j,
                          CHOOSE i \in solid : \A j \in solid : i >= j)

\* isValidUUID(uuid): /^[0-9a-f]{8}-[0-9a-f]{4}-[1-5][0-9a-f]{3}-[89ab][0-9a-f]{3}-[0-9a-f]{12}$/i
IsValidUUID(text) ==
    LET hexDigits ==
            {"0", "1", "2", "3", "4", "5", "6", "7", "8", "9",
             "a", "b", "c", "d", "e", "f", "A", "B", "C", "D", "E", "F"}
    IN
    /\ Len(text) = 36
    /\ \A i \in DOMAIN text :
          IF i \in {9, 14, 19, 24} THEN text[i] = "-"
          ELSE IF i = 15 THEN text[i] \in {"1", "2", "3", "4", "5"}
          ELSE IF i = 20 THEN text[i] \in {"8", "9", "a", "b", "A", "B"}
          ELSE text[i] \in hexDigits

\* ValidateMessage without the test of the length
ValidateMessageNoLimit(value) ==
    IF value.type \in {"undefined", "null"} THEN "required"
    ELSE IF value.type # "string" THEN "not a string"
    ELSE IF StringLength(Trim(value.text)) = 0 THEN "empty"
    ELSE "ok"

\* 1. Input Validation: Message
ValidateMessage(value) ==
    IF value.type \in {"undefined", "null"} THEN "required"
    ELSE IF value.type # "string" THEN "not a string"
    ELSE IF StringLength(Trim(value.text)) = 0 THEN "empty"
    ELSE IF StringLength(Trim(value.text)) > MaxMessageLength THEN "too long"
    ELSE "ok"

\* 2. Input Validation: Session ID
ValidateSessionId(sessionId) ==
    IF sessionId.type \in {"undefined", "null"} THEN "ok"
    ELSE IF sessionId.type # "string" THEN "not a string"
    ELSE IF Trim(sessionId.text) = <<>> THEN "empty"
    ELSE IF ~IsValidUUID(sessionId.text) THEN "not a UUID"
    ELSE "ok"

\* the bodies of the requests
MalformedUuid == UuidText("a", "0", "8")
UnknownUuid == UuidText("F", "4", "B")

Requests ==
    LET notStrings ==
            { NoValue, [type |-> "null", text |-> <<>>],
              [type |-> "number", text |-> <<>>] }
        strings(texts) == { [type |-> "string", text |-> t] : t \in texts }
    IN  [message : notStrings \cup
                     strings({ <<>>, <<" ">>, <<"a">>, <<" ", "a", " ">>, <<LongRun>>,
                               <<" ", LongRun, " ">>, <<LongRun, "a">> }),
         sessionId : notStrings \cup
                       strings({ <<>>, <<" ">>, <<"a">>, MalformedUuid, UnknownUuid,
                                 ConvId })]

Respond(status, error) ==
    [route EXCEPT !.stage = "responded",
                  !.response = [status |-> status, error |-> error]]

RouteFrame ==
    /\ UNCHANGED <<db, nextId, cache, redisUp, otherLeft, registry, lastRegistered>>
    /\ UNCHANGED <<convs, listCache, peer>>
    /\ UNCHANGED <<orchVars, stratVars, titleVars>>

\* the handler up to its first await: validation, then getConversation for
\* a session id or createConversation without one
RouteReceive ==
    /\ route.stage = "listening"
    /\ \E request \in Requests :
          LET received == [route EXCEPT !.request = request]
              invalid == IF ValidateMessage(request.message) # "ok"
                         THEN ValidateMessage(request.message)
                         ELSE ValidateSessionId(request.sessionId)
          IN  IF invalid # "ok"
              THEN /\ route' = [received EXCEPT
                                   !.stage = "responded",
                                   !.response = [status |-> 400, error |-> invalid]]
                   /\ UNCHANGED sv
              ELSE /\ route' = [received EXCEPT !.stage = "session"]
                   /\ sv' = [sv EXCEPT !["orch"] =
                               IF request.sessionId.type = "string"
                               THEN [NoCall EXCEPT !.op = "getConversation",
                                                   !.pc = "findOne",
                                                   !.status = "running",
                                                   !.conv = request.sessionId.text]
                               ELSE BeginCreateConversation]
    /\ RouteFrame

\* 3. Session Handling, after the await: 404 for an unknown session, 500 when
\* the service raised, else the orchestrator is constructed
RouteAfterSession ==
    /\ route.stage = "session"
    /\ sv["orch"].status # "running"
    /\ route' = IF sv["orch"].status = "raised"
                THEN Respond(500, "Internal Server Error")
                ELSE IF sv["orch"].op = "getConversation" /\ ~sv["orch"].found
                THEN Respond(404, "Not Found")
                ELSE [route EXCEPT !.stage = "ready", !.conversationId = sv["orch"].conv]
    /\ sv' = [sv EXCEPT !["orch"] = NoCall]
    /\ RouteFrame

\* orchestrator.processMessage(trimmedMessage, ChatType.STANDARD)
RouteInvoke ==
    /\ route.stage = "ready"
    /\ ProcessMessageOf({Trim(route.request.message.text)})
    /\ chatType' = "STANDARD"

\* the payload the streaming branch writes when processMessage raised
RouteErrorPayload ==
    << "{", "\"error\":", "Internal Server Error", "\"details\":",
       "An error occurred during the streaming process.", "}" >>

\* RouteCatchFrames without its last write
RouteCatchFramesNoDone == << ErrorFrame, DataFrame(RouteErrorPayload) >>

\* catch of the streaming branch: three writes, then res.end()
RouteCatchFrames == << ErrorFrame, DataFrame(RouteErrorPayload), DoneFrame >>

\* the body written by the streaming branch: res.write(chunk) for every frame
\* of processMessage, and the writes of the catch when processMessage raised
StreamBody == frames \o (IF pc = "raised" THEN RouteCatchFrames ELSE <<>>)

\* ------------------------------------------------------------ specification
InitWith(calls, handler) ==
    /\ db = <<>>
    /\ nextId = 1
    /\ cache = <<>>
    /\ redisUp \in BOOLEAN
    /\ sv = [p \in Procs |-> NoCall]
    /\ otherLeft = calls
    /\ pc = "idle"
    /\ message = <<>>
    /\ chatType = "STANDARD"
    /\ userSaved = None
    /\ memory = [loaded |-> FALSE, msgs |-> <<>>]
    /\ fullResponse = <<>>
    /\ frames = <<>>
    /\ steps = <<>>
    /\ registry = [kind \in ChatTypes |->
                     IF kind = "STANDARD" THEN "StandardLLMStrategy" ELSE "none"]
    /\ lastRegistered = registry
    /\ st = NoStrategy
    /\ chunk = NoChunk
    /\ stratFrames = <<>>
    /\ increments = <<>>
    /\ titleTask = "none"
    /\ title = DefaultTitle
    /\ convs = <<ConvId>>
    /\ listCache = NoList
    /\ route = handler
    /\ peer = [pc |-> "idle", first |-> FALSE]

\* the state in which the route has constructed the orchestrator
InitCalls(calls) ==
    InitWith(calls, [RouteListening EXCEPT !.stage = "ready", !.conversationId = ConvId])

Init == InitCalls(MaxOtherCalls)

\* one request from its arrival to the end of processMessage
Next ==
    \/ Register
    \/ CacheExpire
    \/ AddMessageSave("orch")
    \/ AddMessageExists("orch")
    \/ AddMessageRPush("orch")
    \/ AddMessageExpire("orch")
    \/ GetHistoryLRange("orch")
    \/ GetHistoryFind("orch")
    \/ GetHistoryMulti("orch")
    \/ ProcessMessage
    \/ OrchAfterAddUser
    \/ OrchAfterLoad
    \/ OrchConsume
    \/ OrchCatch
    \/ OrchAfterStream
    \/ OrchAfterAddAi
    \/ GenCallTo
    \/ GenName
    \/ GenRetrieve
    \/ GenCreate
    \/ GenChunk
    \/ GenStreamEnd
    \/ GenStreamError
    \/ GenErrorMarker
    \/ GenErrorPayload
    \/ GenErrorDone
    \/ GenCustomYield
    \/ GenCustomReturn
    \/ GenCustomRaise
    \/ TitleCall
    \/ TitleUpdate

Spec == Init /\ [][Next]_vars

\* steps 1 to 4 of processMessage while a second request uses the service on
\* the same conversation
NextConcurrent ==
    \/ OtherCall
    \/ CacheExpire
    \/ \E p \in Procs : AddMessageSave(p)
    \/ \E p \in Procs : AddMessageExists(p)
    \/ \E p \in Procs : AddMessageRPush(p)
    \/ \E p \in Procs : AddMessageExpire(p)
    \/ \E p \in Procs : GetHistoryLRange(p)
    \/ \E p \in Procs : GetHistoryFind(p)
    \/ \E p \in Procs : GetHistoryMulti(p)
    \/ ProcessMessage
    \/ OrchAfterAddUser
    \/ OrchAfterLoad

SpecConcurrent == Init /\ [][NextConcurrent]_vars

\* one client whose requests never overlap: service calls and steps 1 to 4
\* of one processMessage, each started when the previous one is over
SeqOtherCall ==
    /\ pc \notin {"addUser", "load"}
    /\ OtherCall

SeqProcessMessage ==
    /\ sv["other"].status # "running"
    /\ ProcessMessage

NextSequential ==
    \/ SeqOtherCall
    \/ SeqProcessMessage
    \/ CacheExpire
    \/ \E p \in Procs : AddMessageSave(p)
    \/ \E p \in Procs : AddMessageExists(p)
    \/ \E p \in Procs : AddMessageRPush(p)
    \/ \E p \in Procs : AddMessageExpire(p)
    \/ \E p \in Procs : GetHistoryLRange(p)
    \/ \E p \in Procs : GetHistoryFind(p)
    \/ \E p \in Procs : GetHistoryMulti(p)
    \/ OrchAfterAddUser
    \/ OrchAfterLoad

InitSequential == InitCalls(MaxSeqCalls)

SpecSequential == InitSequential /\ [][NextSequential]_vars

\* a client that adds messages, reads the history and deletes the
\* conversation, one call after the other, while steps 1 to 4 of a
\* processMessage call on the same conversation are in flight
Deleted ==
    /\ ~ConversationExists(ConvId)
    /\ \A p \in Procs : sv[p].op = "deleteConversation" => sv[p].status # "running"

DeleteClientCall ==
    /\ otherLeft > 0
    /\ sv["other"].status # "running"
    /\ otherLeft' = otherLeft - 1
    /\ \/ sv' = [sv EXCEPT !["other"] = BeginAddMessage("user", OtherText)]
       \/ sv' = [sv EXCEPT !["other"] = [BeginGetHistory EXCEPT !.settled = Deleted]]
       \/ sv' = [sv EXCEPT !["other"] =
                    [NoCall EXCEPT !.op = "deleteConversation", !.pc = "deleteMessages",
                                   !.status = "running", !.conv = ConvId]]
    /\ UNCHANGED <<db, nextId, cache, redisUp, registry, lastRegistered, convVars>>
    /\ UNCHANGED <<orchVars, stratVars, titleVars>>

NextDelete ==
    \/ DeleteClientCall
    \/ CacheExpire
    \/ \E p \in Procs : AddMessageSave(p)
    \/ \E p \in Procs : AddMessageExists(p)
    \/ \E p \in Procs : AddMessageRPush(p)
    \/ \E p \in Procs : AddMessageExpire(p)
    \/ \E p \in Procs : GetHistoryLRange(p)
    \/ \E p \in Procs : GetHistoryFind(p)
    \/ \E p \in Procs : GetHistoryMulti(p)
    \/ DeleteMessages("other")
    \/ DeleteConv("other")
    \/ DeleteHistoryKey("other")
    \/ InvalidateScan("other")
    \/ ProcessMessage
    \/ OrchAfterAddUser
    \/ OrchAfterLoad

SpecDelete == InitCalls(MaxDeleteCalls) /\ [][NextDelete]_vars

\* two clients that list the conversations, create one and rename the
\* conversation of the request, their calls overlapping
Mutating(call) ==
    call.op \in {"createConversation", "updateTitle"} /\ call.status = "running"

\* id and title of the entries of a conversation list
ListEssence(list) == MapSeq(list, LAMBDA c : [id |-> c.id, title |-> c.title])

ListClientCall(p) ==
    /\ otherLeft > 0
    /\ sv[p].status # "running"
    /\ otherLeft' = otherLeft - 1
    /\ \/ sv' = [sv EXCEPT ![p] =
                    [NoCall EXCEPT !.op = "getConversationsList", !.pc = "get",
                                   !.status = "running",
                        !.settled = \A q \in Procs : ~Mutating(sv[q]),
                        !.seen = ListEssence(ConversationsList)]]
       \/ /\ Len(convs) + Cardinality({q \in Procs : Mutating(sv[q])}) <= MaxNewConvs
          /\ sv' = [sv EXCEPT ![p] = BeginCreateConversation]
       \/ /\ title = DefaultTitle
          /\ sv' = [sv EXCEPT ![p] =
                       [NoCall EXCEPT !.op = "updateTitle", !.pc = "update",
                                      !.status = "running", !.conv = ConvId,
                                      !.title = "generated"]]
    /\ UNCHANGED <<db, nextId, cache, redisUp, registry, lastRegistered, convVars>>
    /\ UNCHANGED <<orchVars, stratVars, titleVars>>

NextList ==
    \/ \E p \in Procs : ListClientCall(p)
    \/ \E p \in Procs : ListGet(p)
    \/ \E p \in Procs : ListFind(p)
    \/ \E p \in Procs : ListSet(p)
    \/ \E p \in Procs : CreateConversationSave(p)
    \/ \E p \in Procs : UpdateTitleUpdate(p)
    \/ \E p \in Procs : InvalidateScan(p)
    \/ \E p \in Procs : InvalidateDel(p)
    \/ ListCacheExpire

SpecList == InitCalls(MaxListCalls) /\ [][NextList]_vars

\* two processMessage calls on one conversation, steps 1 and 2 of each, with
\* the expiry of the history key
NextPeer ==
    \/ PeerProcessMessage
    \/ PeerAfterAddUser
    \/ PeerAfterLoad
    \/ CacheExpire
    \/ \E p \in Procs : AddMessageSave(p)
    \/ \E p \in Procs : AddMessageExists(p)
    \/ \E p \in Procs : AddMessageRPush(p)
    \/ \E p \in Procs : AddMessageExpire(p)
    \/ \E p \in Procs : GetHistoryLRange(p)
    \/ \E p \in Procs : GetHistoryFind(p)
    \/ \E p \in Procs : GetHistoryMulti(p)
    \/ ProcessMessage
    \/ OrchAfterAddUser
    \/ OrchAfterLoad

SpecPeer == InitCalls(0) /\ [][NextPeer]_vars

\* one request whose caller may stop pulling once it has received [DONE]
NextCaller == Next \/ CallerStops

SpecCaller == Init /\ [][NextCaller]_vars

\* one POST /chat/message request from its arrival to the end of step 1 of
\* processMessage
NextRoute ==
    \/ RouteReceive
    \/ GetConversationFindOne("orch")
    \/ CreateConversationSave("orch")
    \/ InvalidateScan("orch")
    \/ RouteAfterSession
    \/ RouteInvoke
    \/ AddMessageSave("orch")
    \/ AddMessageExists("orch")
    \/ OrchAfterAddUser

SpecRoute == InitWith(0, RouteListening) /\ [][NextRoute]_vars

\* one request whose retrieval is followed call by call, Redis being down:
\* queries without a links keyword, with one, and with one in upper case
\* inside a longer word
QueryTexts ==
    { <<"a">>, <<"f", "e", "e">>, <<"p", "d", "f">>, <<"P", "D", "F", "s">> }

RetrievalRequest == ProcessMessageOf(QueryTexts)

NextRetrieval ==
    \/ RetrievalRequest
    \/ AddMessageSave("orch")
    \/ GetHistoryLRange("orch")
    \/ GetHistoryFind("orch")
    \/ OrchAfterAddUser
    \/ OrchAfterLoad
    \/ OrchConsume
    \/ GenCallTo
    \/ GenName
    \/ RtDetect
    \/ RtEmbed
    \/ RtQuery
    \/ RtBroadEmbed
    \/ RtBroadQuery
    \/ GenCreate

InitRetrieval == InitCalls(0) /\ ~redisUp

SpecRetrieval == InitRetrieval /\ [][NextRetrieval]_vars

\* ------------------------------------------------------------------ claims
Terminated == pc \in {"done", "raised"}

Count(seq, x) == Cardinality({i \in DOMAIN seq : seq[i] = x})

InSeq(seq, x) == \E i \in DOMAIN seq : seq[i] = x

\* the last n elements of a sequence
Last(seq, n) == SubSeq(seq, Len(seq) - n + 1, Len(seq))

AiMessages == SelectSeq(db, LAMBDA m : m.sender = "ai")

\* a frame carrying a JSON object with a message field
IsMessagePayload(f) ==
    \E m \in {MsgGeneric, MsgRateLimit, MsgInvalidKey, MsgTimedOut, MsgOrchestrator} :
        f = DataFrame(JsonMessage(m))

\* ends in exactly one [DONE]; at most one [ERROR]; an [ERROR] is followed by
\* its payload frame and the final [DONE] only
WellFormed(fs) ==
    /\ Len(fs) >= 1
    /\ fs[Len(fs)] = DoneFrame
    /\ Count(fs, DoneFrame) = 1
    /\ Count(fs, ErrorFrame) <= 1
    /\ \A i \in DOMAIN fs :
          fs[i] = ErrorFrame => i = Len(fs) - 2 /\ IsMessagePayload(fs[i + 1])

\* C1 as stated: whatever the collaborators do, when processMessage (not
\* running a custom strategy) has ended, the frames it yielded end in exactly
\* one [DONE], hold at most one [ERROR], and the [ERROR] sequence comes right
\* before the final [DONE].
C1_AlwaysWellFormed ==
    (Terminated /\ st.class # "CustomStrategy") => WellFormed(frames)

\* C1 amended: whenever processMessage has constructed the standard strategy,
\* which is exactly when it yields any frame, the frames it has yielded once
\* it ended are well formed; when it raised before that, it yielded nothing.
C1_WellFormedOnceStreaming ==
    /\ (Terminated /\ st.class = "StandardLLMStrategy") => WellFormed(frames)
    /\ (Terminated /\ st.class = "none") => (frames = <<>> /\ pc = "raised")

C1_Witness ==
    /\ pc = "done"
    /\ st.class = "StandardLLMStrategy"
    /\ increments # <<>>
    /\ InSeq(frames, ErrorFrame)

\* C2: the memory given to the strategy contains the user message that the
\* same processMessage call appended in step 1.
C2_MemoryHasUserMessage ==
    st.class # "none" =>
        \E i \in DOMAIN st.memory : st.memory[i].id = userSaved.id

\* C3: once processMessage (running the standard strategy) has yielded a
\* frame it never raises to its caller.
C3_NoRaiseAfterFirstFrame ==
    (pc = "raised" /\ st.class # "CustomStrategy") => frames = <<>>

\* C4: as long as the step-1 append has not succeeded, processMessage has
\* yielded nothing and has started no later step (history load, title task,
\* strategy resolution, ai append); when the append fails the call raises.
C4_UserAppendFailureIsFatal ==
    userSaved = None =>
        /\ pc \in {"idle", "addUser", "raised"}
        /\ frames = <<>>
        /\ \A i \in DOMAIN steps : steps[i] = "addMessage:user"
        /\ ~memory.loaded
        /\ titleTask = "none"
        /\ st = NoStrategy
        /\ AiMessages = <<>>

C4_Witness ==
    /\ pc = "raised"
    /\ userSaved = None
    /\ steps = <<"addMessage:user">>

\* C5: a failure of the memory load or of the strategy resolution ends the
\* call with the in-band sequence [ERROR], payload, [DONE], not with a raise.
C5_LoadFailureInBand ==
    (Terminated /\ userSaved # None /\ st.class = "none") =>
        /\ pc = "done"
        /\ Len(frames) = 3
        /\ frames[1] = ErrorFrame
        /\ IsMessagePayload(frames[2])
        /\ frames[3] = DoneFrame

\* C6: after a clean completion of the standard strategy that streamed some
\* text, exactly one ai message was appended and its content is the
\* concatenation of the streamed text increments.
C6_StoredEqualsStreamed ==
    (pc = "done" /\ st.class = "StandardLLMStrategy" /\ st.errMsg = "none"
       /\ Concat(increments) # <<>>) =>
        /\ Len(AiMessages) = 1
        /\ AiMessages[1].content = Concat(increments)

\* C7: after a rate-limit failure of the model client the output ends with
\* [ERROR], the payload with the rate-limit message, [DONE], and no ai
\* message is stored.
C7_RateLimitNothingPersisted ==
    (Terminated /\ st.class = "StandardLLMStrategy" /\ st.errMsg = MsgRateLimit) =>
        /\ Len(frames) >= 3
        /\ Last(frames, 3) = <<ErrorFrame, DataFrame(JsonMessage(MsgRateLimit)), DoneFrame>>
        /\ AiMessages = <<>>

\* C8: when the strategy's generator raises, processMessage ends normally
\* having yielded the frames already forwarded followed by exactly [ERROR],
\* one message payload frame and [DONE], and it appends no ai message.
C8_StrategyRaiseHandled ==
    st.pc = "raised" =>
        /\ pc \in {"stream", "done"}
        /\ pc = "done" =>
              /\ frames = stratFrames \o
                    <<ErrorFrame, DataFrame(JsonMessage(MsgOrchestrator)), DoneFrame>>
              /\ IsMessagePayload(frames[Len(frames) - 1])
        /\ ~InSeq(steps, "addMessage:ai")
        /\ AiMessages = <<>>

C8_Witness ==
    /\ st.pc = "raised"
    /\ pc = "done"
    /\ fullResponse # <<>>

\* C9: once step 1 has succeeded the user message stays in the store exactly
\* as it was appended, whatever the outcome of the call.
C9_UserMessageKept ==
    userSaved # None =>
        /\ Count(db, userSaved) = 1
        /\ userSaved.sender = "user"
        /\ userSaved.content = message

C9_Witness ==
    /\ st.pc = "raised"
    /\ pc = "done"
    /\ Count(db, userSaved) = 1

\* C10: the frames processMessage yields are the frames the strategy yielded,
\* same frames in the same order, followed only by the frames of the catch
\* block when the strategy raised.
C10_FramesForwardedUnmodified ==
    LET n == Len(stratFrames) - (IF chunk # NoChunk THEN 1 ELSE 0)
    IN  /\ chunk # NoChunk => chunk = stratFrames[Len(stratFrames)]
        /\ frames = SubSeq(stratFrames, 1, n) \o
              (IF pc = "done" /\ st.pc = "raised" THEN OrchestratorErrorFrames ELSE <<>>)

C10_Witness ==
    /\ pc = "done"
    /\ frames = stratFrames
    /\ \E i \in DOMAIN frames :
          StartsWith(frames[i], DataPrefix) /\ ChunkText(frames[i]) = <<>>
    /\ \E i \in DOMAIN frames : ChunkText(frames[i]) # <<>>

\* what a message is, whatever the representation of its timestamp
Essence(m) == [id |-> m.id, sender |-> m.sender, content |-> m.content]

Essences(ms) == [i \in 1..Len(ms) |-> Essence(ms[i])]

\* C11: whenever a getHistory call returns, served from the cache or from the
\* database, what it returns is the store's messages of the conversation in
\* creation order, none missing and none extra.
C11_HistoryIsTheStore ==
    [][\A p \in Procs :
          (sv[p].op = "getHistory" /\ sv[p].status = "running"
             /\ sv'[p].status = "returned")
          => Essences(sv'[p].result) = Essences(db)]_vars

\* C12: when getHistory follows an addMessage that has returned, with no
\* other append in between, the sequence it returns ends with that message,
\* role and text unchanged.
C12_RoundTrip ==
    (memory.loaded /\ db[Len(db)] = userSaved) =>
        /\ memory.msgs # <<>>
        /\ Essence(memory.msgs[Len(memory.msgs)]) = Essence(userSaved)

\* C13: two getHistory calls in a row, with no message saved from the entry
\* of the first to the return of the second, return the same messages in the
\* same order.
C13_ReadIdempotent ==
    \A p \in Procs :
        (sv[p].op = "getHistory" /\ sv[p].status = "returned"
           /\ sv[p].prev.valid /\ sv[p].prev.stamp = nextId)
        => Essences(sv[p].result) = Essences(sv[p].prev.result)

\* C14: the title task is started for, and only for, the first message of a
\* conversation: once memory is loaded, the task has been started exactly
\* when the message just saved is the conversation's first message.
C14_TitleOnlyForFirstMessage ==
    memory.loaded => ((titleTask # "none") <=> (db[1] = userSaved))

\* the title task has been started and has not finished
TitlePending == titleTask \in {"calling", "updating"}

\* C15: the main response never waits for the title task and takes nothing
\* from it: while the title task is pending, the end of the stream (or the
\* raise of the strategy) can be followed at once by step 5 and by the
\* return of processMessage; a raise of
\* processMessage comes from one of its own steps (1, 2, 3 or 5), and a
\* stream that the model completed carries no [ERROR] frame, whatever became
\* of the title task.
C15_TitleTaskDetached ==
    /\ (TitlePending /\ pc = "stream") =>
          /\ (chunk = NoChunk /\ st.pc = "finish") => ENABLED OrchAfterStream
          /\ (chunk = NoChunk /\ st.pc = "raised") => ENABLED OrchCatch
    /\ (TitlePending /\ pc = "addAi" /\ sv["orch"].status # "running")
          => ENABLED OrchAfterAddAi
    /\ pc = "raised" =>
          \/ userSaved = None
          \/ ~memory.loaded
          \/ steps[Len(steps)] \in {"throw:UnknownChatType", "throw:constructor",
                                   "addMessage:ai"}
    /\ (st.class = "StandardLLMStrategy" /\ st.pc = "finish" /\ st.err = NoError)
          => ~InSeq(frames, ErrorFrame)

C15_Witness ==
    /\ pc = "done"
    /\ titleTask = "calling"
    /\ AiMessages # <<>>
    /\ Last(frames, 1) = <<DoneFrame>>

\* one data frame per text, in order
DataFrames(texts) == [i \in 1..Len(texts) |-> DataFrame(texts[i])]

StartPair == <<CallToFrame, StrategyNameFrame>>

\* chunks the model stream has delivered, with or without text
ChunksReceived == MaxChunks - st.left

\* C16 as stated: a stream that completes has given one data frame for each
\* chunk received from the model, between the start pair and [DONE].
C16_OneFramePerChunk ==
    (st.class = "StandardLLMStrategy" /\ st.pc = "finish" /\ st.err = NoError)
        => Len(stratFrames) = 2 + ChunksReceived + 1

\* C16: StandardLLMStrategy.generateResponse yields the start marker pair
\* first, before classification, retrieval and the model call; then one data
\* frame per chunk received from the model that carries text, same text,
\* same order, and none for a chunk without text; and the last frame it
\* yields is [DONE].
C16_StartPairChunksDone ==
    st.class = "StandardLLMStrategy" =>
        /\ st.pc \in {"retrieve", "create"} => stratFrames = StartPair
        /\ st.pc = "iterate" => stratFrames = StartPair \o DataFrames(increments)
        /\ st.pc = "finish" =>
              /\ Last(stratFrames, 1) = <<DoneFrame>>
              /\ st.err = NoError =>
                    stratFrames = StartPair \o DataFrames(increments) \o <<DoneFrame>>
              /\ st.err # NoError =>
                    SubSeq(stratFrames, 1, Len(increments) + 2)
                        = StartPair \o DataFrames(increments)

C16_Witness ==
    /\ st.class = "StandardLLMStrategy"
    /\ st.pc = "finish"
    /\ st.err = NoError
    /\ increments # <<>>
    /\ ChunksReceived > Len(increments)

\* the message the specification assigns to a failure, by category
FixedMessage(e) ==
    CASE e.status = 429 -> MsgRateLimit
      [] e.status = 401 -> MsgInvalidKey
      [] e.status \notin {429, 401} /\ e.code \in {"ECONNRESET", "ETIMEDOUT"} -> MsgTimedOut
      [] OTHER -> MsgGeneric

\* the payload frame of a finished error sequence
PayloadFrame == stratFrames[Len(stratFrames) - 1]

\* C17: a failure of the model is reported with the fixed message of its
\* category (rate limited, invalid credentials, connection reset or timed
\* out, anything else), and the payload frame carries that message, never
\* the raw text of the error.
C17_FixedMessageByCategory ==
    (st.class = "StandardLLMStrategy" /\ st.err # NoError) =>
        /\ st.errMsg = FixedMessage(st.err)
        /\ st.pc = "finish" =>
              /\ PayloadFrame = DataFrame(JsonMessage(FixedMessage(st.err)))
              /\ ~InSeq(PayloadFrame, st.err.message)

C17_Witness ==
    /\ st.class = "StandardLLMStrategy"
    /\ st.pc = "finish"
    /\ st.err = ErrConnReset
    /\ PayloadFrame = DataFrame(JsonMessage(MsgTimedOut))

\* C18: when the model call is aborted by the 30-second timer, the payload
\* frame carries the timed-out message.
C18_TimeoutReportedAsTimedOut ==
    (st.class = "StandardLLMStrategy" /\ st.err \in AbortErrors /\ st.pc = "finish")
        => PayloadFrame = DataFrame(JsonMessage(MsgTimedOut))

\* the last three frames of the strategy
LastThree == Last(stratFrames, 3)

\* C19 as stated: whenever classification, retrieval, the creation of the
\* stream or its iteration failed, the finished sequence ends with [ERROR],
\* one payload frame and [DONE].
C19_EveryFailureEndsTheSequence ==
    (st.class = "StandardLLMStrategy" /\ st.pc = "finish"
       /\ (st.retrievalFailed \/ st.err # NoError))
    => LastThree = <<ErrorFrame, DataFrame(JsonMessage(st.errMsg)), DoneFrame>>

\* C19: generateResponse of StandardLLMStrategy never raises; a failure of the
\* creation of the stream or of its iteration ends the sequence with [ERROR],
\* one payload frame and [DONE], with no frame after [ERROR] but these; a
\* failure of classification or retrieval is recovered and, alone, puts no
\* [ERROR] frame in the sequence.
C19_FailuresStayInBand ==
    st.class = "StandardLLMStrategy" =>
        /\ st.pc # "raised"
        /\ (st.pc = "finish" /\ st.err # NoError) =>
              /\ LastThree = <<ErrorFrame, DataFrame(JsonMessage(st.errMsg)), DoneFrame>>
              /\ Count(stratFrames, ErrorFrame) = 1
              /\ Len(stratFrames) = Len(increments) + 5
        /\ st.err = NoError => ~InSeq(stratFrames, ErrorFrame)

C19_Witness ==
    /\ st.class = "StandardLLMStrategy"
    /\ st.pc = "finish"
    /\ st.retrievalFailed
    /\ st.err # NoError
    /\ increments # <<>>
    /\ LastThree = <<ErrorFrame, DataFrame(JsonMessage(st.errMsg)), DoneFrame>>

\* C20 as stated: getStrategy for a kind that has a registered constructor
\* returns an instance of it.
C20_RegisteredKindReturnsInstance ==
    (memory.loaded /\ registry[chatType] # "none") => st.class = registry[chatType]

\* C20: getStrategy fails with the unknown-kind error exactly when the kind
\* has no registered constructor; otherwise it calls the constructor most
\* recently registered for the kind with the arguments it was given, and
\* returns the instance or lets the constructor's error through; a
\* registration changes the mapping of its own kind only.
C20_RegistryLookup ==
    /\ registry = lastRegistered
    /\ memory.loaded =>
          /\ InSeq(steps, "throw:UnknownChatType") <=> registry[chatType] = "none"
          /\ registry[chatType] # "none" =>
                \/ st.class = lastRegistered[chatType] /\ st.memory = memory.msgs
                \/ st.class = "none" /\ Last(steps, 1) = <<"throw:constructor">>

C20_Witness ==
    /\ chatType = "STANDARD"
    /\ st.class = "CustomStrategy"
    /\ registry["RAG"] = "none"
    /\ st.memory = memory.msgs
    /\ memory.msgs # <<>>

\* the targeted retrieval of the call has run its queries and built its result
PerTypeBuilt ==
    /\ st.rt.slug # "none"
    /\ st.rt.stage \in {"broadEmbed", "broadQuery", "done"}
    /\ "embedding" \notin st.rt.failures

\* the blocks of a context that describe chunk `id`
BlocksOf(context, id) ==
    {i \in DOMAIN context : context[i].format # "urls" /\ context[i].id = id}

\* the number of times `url` is listed in the URL blocks of a context
UrlListings(context, url) ==
    Cardinality({ <<i, k>> \in (DOMAIN context) \X (1..Len(context)) :
                    /\ context[i].format = "urls"
                    /\ k \in DOMAIN context[i].urls
                    /\ context[i].urls[k] = url })

FirstOccurrence(ms, id) ==
    ms[CHOOSE i \in DOMAIN ms :
          ms[i].id = id /\ \A j \in 1..(i - 1) : ms[j].id # id]

\* C21: whatever ids the targeted queries return, overlapping or not, the
\* context fetchContextPerType assembles holds exactly one block per returned
\* id, that block is the one of the id's first occurrence, the match count is
\* the number of distinct ids, and every URL that was returned is listed
\* exactly once in the trailing URL block.
C21_Deduplicated ==
    PerTypeBuilt =>
        LET ms == st.rt.allMatches
            result == st.rt.perType
            ids == {ms[i].id : i \in DOMAIN ms}
            urls == {ms[i].metadata.url : i \in DOMAIN ms} \ {"none"}
        IN  /\ \A id \in ids :
                  /\ Cardinality(BlocksOf(result.context, id)) = 1
                  /\ \A i \in BlocksOf(result.context, id) :
                        result.context[i] = ChunkBlock(FirstOccurrence(ms, id))
            /\ \A i \in DOMAIN result.context :
                  result.context[i].format # "urls" => result.context[i].id \in ids
            /\ result.matchCount = Cardinality(ids)
            /\ \A url \in urls : UrlListings(result.context, url) = 1
            /\ \A i \in DOMAIN result.context :
                  result.context[i].format = "urls" =>
                      /\ i = Len(result.context)
                      /\ \A k \in DOMAIN result.context[i].urls :
                            result.context[i].urls[k] \in urls

\* two categories returned the same id with different scores, and two
\* matches carried the same URL
C21_Witness ==
    /\ PerTypeBuilt
    /\ \E i, j \in DOMAIN st.rt.allMatches :
          /\ i < j
          /\ st.rt.allMatches[i].id = st.rt.allMatches[j].id
          /\ st.rt.allMatches[i].score < st.rt.allMatches[j].score
    /\ \E i, j \in DOMAIN st.rt.allMatches :
          /\ i < j
          /\ st.rt.allMatches[i].id # st.rt.allMatches[j].id
          /\ st.rt.allMatches[i].metadata.url = "u1"
          /\ st.rt.allMatches[j].metadata.url = "u1"

RetrievalDone == st.rt.stage = "done"

\* the unfiltered query was sent to the vector index
BroadIssued ==
    \E i \in DOMAIN st.rt.queries : st.rt.queries[i].filter = NoFilter

\* fetchContextBroad was called: it sent its query or failed before
BroadPath == BroadIssued \/ "broadEmbedding" \in st.rt.failures

NoTargetedMatch == st.rt.slug = "none" \/ Len(st.rt.allMatches) = 0

\* C22 as stated: when retrieval is over, the unfiltered top-10 query has
\* been executed if and only if no slug was detected or the targeted queries
\* returned no match at all.
C22_BroadQueryIffNoTargetedMatch ==
    RetrievalDone => (BroadIssued <=> NoTargetedMatch)

\* C22 amended: the broad path is taken if and only if no slug was detected
\* or the targeted queries returned no match; on that path one unfiltered
\* top-10 query is sent unless the path's own embedding call fails, and the
\* context is built from that query's matches alone (it is empty when the
\* query was not sent or failed); when the targeted queries returned a match
\* the broad path is not taken and the targeted result is the context.
C22_BroadPathIffNoTargetedMatch ==
    RetrievalDone =>
        /\ BroadPath <=> NoTargetedMatch
        /\ BroadIssued <=> (NoTargetedMatch /\ "broadEmbedding" \notin st.rt.failures)
        /\ BroadPath =>
              /\ Cardinality({i \in DOMAIN st.rt.queries :
                                 st.rt.queries[i].filter = NoFilter}) <= 1
              /\ \A i \in DOMAIN st.rt.queries :
                    st.rt.queries[i].filter = NoFilter => st.rt.queries[i].topK = 10
              /\ st.rt.matchCount = Len(st.rt.broad)
              /\ Len(st.rt.context) = Len(st.rt.broad)
              /\ \A i \in DOMAIN st.rt.context :
                    /\ st.rt.context[i].format = "standard"
                    /\ st.rt.context[i].id = st.rt.broad[i].id
                    /\ st.rt.context[i].content = st.rt.broad[i].metadata.content
        /\ ~NoTargetedMatch =>
              /\ st.rt.matchCount >= 1
              /\ st.rt.context = st.rt.perType.context
              /\ st.rt.broad = <<>>

\* a slug was detected, the targeted queries were sent and returned nothing,
\* and the unfiltered query's two matches are the context
C22_Witness ==
    /\ RetrievalDone
    /\ st.rt.slug # "none"
    /\ Len(st.rt.queries) >= 4
    /\ Len(st.rt.allMatches) = 0
    /\ BroadIssued
    /\ Len(st.rt.context) = 2

\* the failure `f` is caught in this step
Caught(f) == f \in st'.rt.failures /\ f \notin st.rt.failures

\* C23: a step of the retrieval never yields a frame and never leaves the
\* generator in its error handling or raised: it goes on with the retrieval
\* or to the model call.  A classification failure is "no detection" (the
\* broad path is taken), an embedding failure of the targeted path is its
\* empty result followed by the fallback, a failed targeted query adds no
\* match, a failure on the broad path leaves the context empty; and the only
\* thing that follows the retrieval is the model call, whose error is the
\* only source of an error state.
C23_RetrievalErrorsRecovered ==
    [][ /\ st.pc = "retrieve" =>
              /\ st'.pc \in {"retrieve", "create"}
              /\ stratFrames' = stratFrames
              /\ st'.err = NoError
              /\ Caught("classification") =>
                    st'.rt.slug = "none" /\ st'.rt.stage = "broadEmbed"
              /\ Caught("embedding") =>
                    /\ st'.rt.perType = EmptyResult
                    /\ st'.rt.queries = <<>>
                    /\ st'.rt.stage = "broadEmbed"
              /\ Caught("query") =>
                    /\ st'.rt.allMatches = st.rt.allMatches
                    /\ st'.rt.allLinks = st.rt.allLinks
                    /\ st'.rt.todo = <<>> =>
                          st'.rt.stage = (IF st.rt.allMatches = <<>>
                                          THEN "broadEmbed" ELSE "done")
              /\ (Caught("broadEmbedding") \/ Caught("broadQuery")) =>
                    /\ st'.rt.context = <<>>
                    /\ st'.rt.matchCount = 0
                    /\ st'.pc = "create"
        /\ (st.pc = "create" /\ st' # st) =>
              /\ st'.pc \in {"iterate", "error"}
              /\ st'.pc = "error" => st'.err \in Errors
              /\ st'.rt = st.rt
      ]_vars

\* the targeted path's embedding call failed, the fallback's vector query
\* failed too, and the model stream was opened
C23_Witness ==
    /\ st.pc = "iterate"
    /\ st.err = NoError
    /\ st.rt.failures = {"embedding", "broadQuery"}
    /\ st.rt.context = <<>>
    /\ ~InSeq(stratFrames, ErrorFrame)

\* the queries sent with a filter, in the order they were sent
TargetedQueries == SelectSeq(st.rt.queries, LAMBDA q : q.filter # NoFilter)

\* fetchContextPerType has returned
PerTypeOver ==
    /\ st.rt.slug # "none"
    /\ st.rt.stage \in {"broadEmbed", "broadQuery", "done"}

\* the texts of QueryTexts that contain a links keyword, whatever the case
TextsWithLinkKeyword == { <<"p", "d", "f">>, <<"P", "D", "F", "s">> }

\* one top-1 query filtered on the detected slug and on each expected
\* category, and no other filtered query
OnePerCategory ==
    LET expected == {"card_info", "benefits_list", "card_benefits_detail"}
                      \cup (IF message \in TextsWithLinkKeyword
                            THEN {"important_links"} ELSE {})
    IN  /\ \A c \in expected :
              Cardinality({i \in DOMAIN TargetedQueries :
                              TargetedQueries[i].filter.chunk_type = c}) = 1
        /\ \A i \in DOMAIN TargetedQueries :
              /\ TargetedQueries[i].filter.chunk_type \in expected
              /\ TargetedQueries[i].filter.card_slug = st.rt.slug
              /\ TargetedQueries[i].topK = 1

\* C30 as stated: no filtered query without a detected slug; and once the
\* targeted retrieval of a detected slug is over, it has sent exactly one
\* top-1 query per expected category, filtered on slug and category.
C30_OneQueryPerCategory ==
    /\ st.rt.slug = "none" => TargetedQueries = <<>>
    /\ PerTypeOver => OnePerCategory

\* C30 amended: as above provided the embedding call of the targeted
\* retrieval succeeded, whatever queries failed; when that call fails no
\* filtered query is sent.
C30_OneQueryPerCategoryOnceEmbedded ==
    /\ st.rt.slug = "none" => TargetedQueries = <<>>
    /\ PerTypeOver =>
          IF "embedding" \in st.rt.failures
          THEN TargetedQueries = <<>>
          ELSE OnePerCategory

\* a query with an upper-case links keyword inside a longer word: four
\* targeted queries were sent although one of them failed and the others
\* returned a match
C30_Witness ==
    /\ PerTypeOver
    /\ message = <<"P", "D", "F", "s">>
    /\ "query" \in st.rt.failures
    /\ Len(TargetedQueries) = 4
    /\ Len(st.rt.allMatches) = 3

\* the messages held by the store
Stored == {db[i] : i \in DOMAIN db}

StepOrder ==
    << "addMessage:user", "getHistory", "generateTitle", "getStrategy",
       "generateResponse", "addMessage:ai" >>

\* the steps started so far, without the notes on what was thrown
StepsStarted ==
    SelectSeq(steps, LAMBDA s : \E i \in DOMAIN StepOrder : StepOrder[i] = s)

PositionOf(s) == CHOOSE i \in DOMAIN StepOrder : StepOrder[i] = s

\* C29: in every state of one processMessage call: the steps were started in
\* their fixed order, each at most once; the memory load is running only
\* after the user append has returned its message; a strategy exists, and a
\* frame has been yielded, only after the memory load has returned; the `ai`
\* append is running only after the generator has returned and every frame
\* it yielded has been handed on; and a service call of the orchestrator is
\* never running while the frame sequence is being driven.
C29_StepsSequential ==
    /\ \A i, j \in DOMAIN StepsStarted :
          i < j => PositionOf(StepsStarted[i]) < PositionOf(StepsStarted[j])
    /\ (sv["orch"].op = "getHistory" \/ memory.loaded) =>
          /\ userSaved # None
          /\ userSaved \in {db[i] : i \in DOMAIN db}
    /\ (st # NoStrategy \/ stratFrames # <<>> \/ frames # <<>>) =>
          /\ memory.loaded
          /\ sv["orch"].op # "getHistory"
    /\ (sv["orch"].op = "addMessage" /\ sv["orch"].sender = "ai") =>
          /\ pc = "addAi"
          /\ st.pc = "finish"
          /\ chunk = NoChunk
          /\ Len(frames) = Len(stratFrames)
    /\ sv["orch"].status = "running" => pc \in {"addUser", "load", "addAi"}
    /\ pc = "stream" => sv["orch"] = NoCall
    /\ pc = "addUser" => sv["orch"].op = "addMessage" /\ sv["orch"].sender = "user"
    /\ pc = "load" => sv["orch"].op = "getHistory"

\* the `ai` append is running after four frames were handed on, while the
\* detached title task is still waiting for its answer
C29_Witness ==
    /\ pc = "addAi"
    /\ sv["orch"].status = "running"
    /\ sv["orch"].sender = "ai"
    /\ Len(frames) >= 4
    /\ titleTask = "calling"

\* C24: once deleteConversation(id) has returned true, the store holds no
\* message of the conversation, the history cache holds no entry for it, and
\* a getHistory(id) started after that has returned the empty sequence.
C24_DeleteCascades ==
    Deleted =>
        /\ db = <<>>
        /\ cache = <<>>
        /\ \A p \in Procs :
              (sv[p].op = "getHistory" /\ sv[p].status = "returned" /\ sv[p].settled)
                  => sv[p].result = <<>>

\* C27: a getConversationsList call that started when every
\* createConversation and updateTitle call made so far had returned, and
\* during which the conversation table did not change, has returned the
\* conversations of the table with their titles.
C27_ListReflectsChanges ==
    \A p \in Procs :
        ( /\ sv[p].op = "getConversationsList"
          /\ sv[p].status = "returned"
          /\ sv[p].settled
          /\ sv[p].seen = ListEssence(ConversationsList) )
        => ListEssence(sv[p].result) = sv[p].seen

\* ---- C26 (SpecRoute)
\* the requests the route has to reject, told by their bodies alone
BlankTexts == { <<>>, <<" ">> }
OverLongTexts == { <<LongRun, "a">> }
MessageRejectable(request) ==
    \/ request.message.type # "string"
    \/ request.message.text \in BlankTexts \cup OverLongTexts
SessionMalformed(request) ==
    \/ request.sessionId.type = "number"
    \/ /\ request.sessionId.type = "string"
       /\ request.sessionId.text \in BlankTexts \cup { <<"a">>, MalformedUuid }
SessionUnknown(request) ==
    /\ request.sessionId.type = "string"
    /\ request.sessionId.text = UnknownUuid
Rejectable(request) ==
    MessageRejectable(request) \/ SessionMalformed(request) \/ SessionUnknown(request)
OrchestratorUntouched ==
    /\ pc = "idle" /\ steps = <<>> /\ frames = <<>>
    /\ db = <<>> /\ cache = <<>>
    /\ convs = <<ConvId>>
    /\ sv["orch"].op \in {"none", "getConversation"}

C25_StreamBodyEndsInDone ==
    (Terminated /\ st.class # "CustomStrategy") =>
        /\ StreamBody # <<>>
        /\ StreamBody[Len(StreamBody)] = DoneFrame

\* processMessage raised after frames had been written, and the body still
\* ends in [DONE]
C25_Witness ==
    /\ pc = "raised"
    /\ frames # <<>>
    /\ st.class # "CustomStrategy"
    /\ StreamBody[Len(StreamBody)] = DoneFrame

\* ---- C31 (SpecRetrieval)
\* C31: in one generateResponse call openai.embeddings.create is called at
\* most once, the broad fallback after an empty targeted retrieval included
C31_OneEmbeddingCall == st.rt.embedCalls <= 1

\* ---- C32 (SpecConcurrent)
\* the history cache entry holds the last messages of the conversation but
\* not the first ones
CacheOnlySuffix ==
    LET all == MapSeq(db, Stringify)
    IN  /\ cache # <<>>
        /\ Len(cache) < Len(all)
        /\ cache = SubSeq(all, Len(all) - Len(cache) + 1, Len(all))

\* C32: a history cache entry that exists never holds only a suffix of the
\* message sequence of its conversation (addMessage never creates the entry)
C32_CacheNeverOnlySuffix == ~CacheOnlySuffix

\* ---- C33 (SpecCaller)
AiAppendStarted == InSeq(steps, "addMessage:ai")

\* C33: when step 5 starts, every frame the strategy has yielded, its last
\* one included, has been handed to the caller; and when the caller stops
\* pulling after [DONE], step 5 has not started and never starts, so no ai
\* message is stored
C33_AiAppendAfterLastFrame ==
    /\ AiAppendStarted =>
          /\ chunk = NoChunk
          /\ frames = stratFrames
          /\ pc \notin {"stream", "abandoned"}
    /\ pc = "abandoned" =>
          /\ ~AiAppendStarted
          /\ AiMessages = <<>>
          /\ sv["orch"].op # "addMessage"

\* the caller stopped after [DONE] with assistant text accumulated: nothing
\* is stored for it
C33_Witness ==
    /\ pc = "abandoned"
    /\ fullResponse # <<>>
    /\ frames[Len(frames)] = DoneFrame
    /\ AiMessages = <<>>

\* ---- C34 (Spec)
\* C34: the body of a streaming response holds at most one [DONE] and at
\* most one [ERROR], and [DONE] is its last frame when it holds one, for the
\* strategy of the repository
C34_OneDoneOneError ==
    (chatType = "STANDARD" /\ st.class # "CustomStrategy") =>
        /\ Count(StreamBody, DoneFrame) <= 1
        /\ Count(StreamBody, ErrorFrame) <= 1
        /\ \A i \in DOMAIN StreamBody :
              StreamBody[i] = DoneFrame => i = Len(StreamBody)

\* ---- C35 (SpecPeer)
\* the calls that observed a memory of length 1 and started the title task
TitleStarts ==
    (IF memory.loaded /\ Len(memory.msgs) = 1 THEN 1 ELSE 0)
    + (IF peer.pc = "stream" /\ peer.first THEN 1 ELSE 0)

\* both calls are past step 2
BothLoaded == memory.loaded /\ peer.pc = "stream"

\* C35: of two processMessage calls on a new conversation at most one starts
\* the title task, and once both have loaded their memory one has started it
C35_TitleStartedOnce ==
    /\ TitleStarts <= 1
    /\ BothLoaded => TitleStarts >= 1

\* ---- C36 (Spec)
\* C36: when processMessage has ended without raising, the reply of the
\* non-streaming response is the content of the ai message the call has
\* stored, and it is empty exactly when the call has stored none
C36_ReplyIsStoredText ==
    pc = "done" =>
        /\ (NonStreamingResponse.reply = <<>>) <=> (AiMessages = <<>>)
        /\ AiMessages # <<>> => AiMessages[1].content = NonStreamingResponse.reply

\* C36 amended: the same for the calls in which the strategy's generator
\* does not raise; when it raises, the reply is the text accumulated before
\* and no ai message is stored
C36_ReplyIsStoredTextUnlessStrategyRaised ==
    /\ (pc = "done" /\ st.pc # "raised") =>
          /\ (NonStreamingResponse.reply = <<>>) <=> (AiMessages = <<>>)
          /\ AiMessages # <<>> => AiMessages[1].content = NonStreamingResponse.reply
    /\ (pc = "done" /\ st.pc = "raised") =>
          /\ NonStreamingResponse.reply = fullResponse
          /\ AiMessages = <<>>

\* a call that ended with a model failure reported in-band after some text:
\* the reply is the stored text
C36_Witness ==
    /\ pc = "done"
    /\ st.pc # "raised"
    /\ InSeq(frames, ErrorFrame)
    /\ AiMessages # <<>>
    /\ AiMessages[1].content = NonStreamingResponse.reply

\* ---- C37 (Spec)
\* the frames handed over before the first [ERROR] marker
BeforeError ==
    SubSeq(frames, 1, (CHOOSE i \in DOMAIN frames :
                          /\ frames[i] = ErrorFrame
                          /\ \A j \in 1..(i - 1) : frames[j] # ErrorFrame) - 1)

\* C37: with StandardLLMStrategy, the non-streaming response has an error
\* status exactly when processMessage raised; after a model failure reported
\* in-band it is a success whose reply is the text of the frames before
\* [ERROR], the marker and the payload adding nothing
C37_InBandFailureIsSuccess ==
    (Terminated /\ st.class = "StandardLLMStrategy") =>
        /\ (NonStreamingResponse.status = 500) <=> (pc = "raised")
        /\ (pc = "done" /\ InSeq(frames, ErrorFrame)) =>
              /\ NonStreamingResponse.status = 200
              /\ NonStreamingResponse.reply = ReplyOf(BeforeError)
              /\ NonStreamingResponse.reply = fullResponse

\* a model failure after some text, answered 200 with that text
C37_Witness ==
    /\ pc = "done"
    /\ st.class = "StandardLLMStrategy"
    /\ InSeq(frames, ErrorFrame)
    /\ NonStreamingResponse.status = 200
    /\ NonStreamingResponse.reply # <<>>

\* ---- C38 (SpecDelete)
\* C38: once deleteConversation has returned or raised, it is not the case
\* that it has deleted messages of the conversation while the conversation
\* row is still there
C38_DeleteAllOrNothing ==
    \A p \in Procs :
        (/\ sv[p].op = "deleteConversation"
         /\ sv[p].status # "running"
         /\ sv[p].result # <<>>) => ~ConversationExists(sv[p].conv)

\* the case C38 names: deleteConversation has deleted the messages, a message
\* saved meanwhile made the delete of the row fail, and the call has raised
DeleteBlockedByNewMessage ==
    /\ sv["other"].op = "deleteConversation"
    /\ sv["other"].status = "raised"
    /\ sv["other"].result # <<>>
    /\ db # <<>>
    /\ ConversationExists(ConvId)

\* ---- C39 (Spec)
\* C39: once generateResponse of StandardLLMStrategy has yielded its last
\* frame, the 30 s timer of the call is not pending any more
C39_TimerCancelled ==
    (st.class = "StandardLLMStrategy" /\ st.pc = "finish") => st.timer # "pending"

===============================================================================
